---- MODULE Spec2Model ----
(***************************************************************************)
(* A model of veridock/filex: the two FileEditor classes (xsl/editor.py    *)
(* and filex/cli.py), the callers in xsl/server.py, and the data-URI codec *)
(* of xsl/utils.py.                                                        *)
(*                                                                         *)
(* A document is a sequence of element nodes in document order (pre-order);*)
(* every node carries the index of its parent (0 for the root).  Strings   *)
(* that the code scans character by character (data URIs) are sequences of *)
(* code points; strings the code only compares are TLA+ strings.           *)
(***************************************************************************)
EXTENDS Integers, Sequences, FiniteSets, TLC

VARIABLES
    LXML_AVAILABLE, \* module flag set by "from lxml import etree" at import
    editor,         \* which FileEditor class was constructed: "xsl" or "filex"
    phase,          \* "new", "loaded", "failed", "done", or "codec"
    tree,           \* self.tree: the parsed document, or None
    backend,        \* the library that built self.tree: "lxml", "et", or None
    ns,             \* self.ns: the prefix -> URI registry of xsl.editor
    attempts,       \* the parsers _parse_content called, in order, with outcome
    pre,            \* self.tree as it was when the last operation was called
    call,           \* the last operation and its arguments
    ret,            \* how the last operation ended: a return value or a raise
    file_path,      \* self.file_path: the path the editor was constructed with
    original_content, \* self.original_content: the text read at load, or None
    file_type,      \* self.file_type of filex.cli, assigned once by _load_file
    disk,           \* the files that exist: path -> text
    editors,        \* FileEditorServer.editors: the dict of an HTTP server
    requests        \* the requests the HTTP server has answered, oldest first

vars == <<LXML_AVAILABLE, editor, phase, tree, backend, ns, attempts, pre, call, ret,
          file_path, original_content, file_type, disk, editors, requests>>

-----------------------------------------------------------------------------
(* Bounds of the model *)

MaxNodes == 4
MaxPayload == 3
MaxData == 5

-----------------------------------------------------------------------------
(* Python values *)

None == "<None>"

\* self.tree = None: no document (a parsed document has at least its root)
NoTree == << >>

Return(v) == [kind |-> "return", val |-> v]
Raise(e)  == [kind |-> "raise", exc |-> e]

\* bool is a subclass of int: True == 1 and False == 0
PyInt(b) == IF b THEN 1 ELSE 0

\* the empty dict / the empty attribute mapping
EmptyMap == [k \in {} |-> None]

MapSet(m, k, v) == [x \in (DOMAIN m) \cup {k} |-> IF x = k THEN v ELSE m[x]]

\* dict.get(k) / element.get(k): None when the key is absent
MapGet(m, k) == IF k \in DOMAIN m THEN m[k] ELSE None

-----------------------------------------------------------------------------
(* Documents *)

Tags == {"a", "b"}
Values == {"", "v"}

XLINK_URI == "http://www.w3.org/1999/xlink"
SVG_URI   == "http://www.w3.org/2000/svg"
XHTML_URI == "http://www.w3.org/1999/xhtml"

\* an attribute key as lxml stores it: "{uri}local", or a plain name (uri "")
Key(uri, local) == <<uri, local>>
Plain(name) == Key("", name)

\* an attribute name as a caller writes it: "prefix:local", or a plain name
Name(prefix, local, raw) == [prefix |-> prefix, local |-> local, raw |-> raw]
NoPrefix == ""

AttrNames ==
    { Name(NoPrefix, "fill", "fill"), Name("xlink", "href", "xlink:href"),
      Name("bad", "x", "bad:x") }

Node(tag, text, attrs, parent) ==
    [tag |-> tag, text |-> text, attrs |-> attrs, parent |-> parent]

RECURSIVE AncSelf(_, _)
AncSelf(t, i) == IF i = 0 THEN {} ELSE {i} \cup AncSelf(t, t[i].parent)

RECURSIVE AncSelfOf(_, _)
AncSelfOf(parents, i) == IF i = 0 THEN {} ELSE {i} \cup AncSelfOf(parents, parents[i])

\* parent links of n elements listed in document order: the first is the
\* root, every other one hangs below the element before it or one of its
\* ancestors
Shapes(n) ==
    { parents \in [1..n -> 0..(n - 1)] :
        /\ parents[1] = 0
        /\ \A i \in 2..n : parents[i] \in AncSelfOf(parents, i - 1) }

IsPreorder(t) == [i \in 1..Len(t) |-> t[i].parent] \in Shapes(Len(t))

\* the documents loaded: every shape and tagging of up to MaxNodes elements,
\* without text, the last element in document order with or without id="1"
Docs ==
    UNION { { [i \in 1..n |->
                 Node(tags[i], None,
                      IF i = n /\ id THEN [k \in {Plain("id")} |-> "1"] ELSE EmptyMap,
                      parents[i])] :
                parents \in Shapes(n), tags \in [1..n -> Tags], id \in BOOLEAN } :
            n \in 1..MaxNodes }

\* a URI a document binds the prefix xlink to in place of the usual one
CUSTOM_URI == "urn:custom"

\* the prefix declarations of a root element (tree.nsmap of lxml): none, or
\* xmlns:xlink bound to the usual URI or to a custom one
NsMaps ==
    { EmptyMap, [p \in {"xlink"} |-> XLINK_URI], [p \in {"xlink"} |-> CUSTOM_URI] }

\* attribute values of documents with embedded data: a base64 data URI, a
\* data URI without the base64 marker, and a file name
PNG_DATA_URI  == "data:image/png;base64,QQ=="
TEXT_DATA_URI == "data:text/plain,A"
FILE_NAME     == "x.png"

UriValues == {PNG_DATA_URI, TEXT_DATA_URI, FILE_NAME}

\* the attributes of a linking element under the declarations nsmap: one or
\* two of href, src and xlink:href (the last only where xlink is declared)
LinkAttrs(nsmap) ==
    LET names == {Plain("href"), Plain("src")}
                    \cup (IF "xlink" \in DOMAIN nsmap THEN {Key(nsmap["xlink"], "href")}
                          ELSE {})
    IN  UNION { [keys -> UriValues] :
                    keys \in { x \in SUBSET names : Cardinality(x) \in 1..2 } }

\* <b><a .../></b>, the element a carrying the attributes
UriDocs(nsmap) ==
    { << Node("b", None, EmptyMap, 0), Node("a", None, attrs, 1) >> :
        attrs \in LinkAttrs(nsmap) }

\* the tags of the elements a and svg in the SVG namespace, as both parsers
\* store them
SVG_A   == "{http://www.w3.org/2000/svg}a"
SVG_SVG == "{http://www.w3.org/2000/svg}svg"

\* <b><a xmlns="http://www.w3.org/2000/svg"/></b>
SvgDocs == { << Node("b", None, EmptyMap, 0), Node(SVG_A, None, EmptyMap, 1) >> }

Subtree(t, i) == { j \in 1..Len(t) : i \in AncSelf(t, j) }

Indices(n) == [i \in 1..n |-> i]

\* parent.remove(element): the element goes with its whole subtree
RemoveSubtree(t, i) ==
    LET size == Cardinality(Subtree(t, i))
        keep == SelectSeq(Indices(Len(t)), LAMBDA j : j \notin Subtree(t, i))
        move(p) == IF p > i THEN p - size ELSE p
    IN  [k \in 1..Len(keep) |-> [t[keep[k]] EXCEPT !.parent = move(@)]]

\* etree.SubElement(parent, tag): appended after the parent's last descendant
AppendChild(t, p, node) ==
    LET pos == p + Cardinality(Subtree(t, p))
        move(q) == IF q >= pos THEN q + 1 ELSE q
    IN  [k \in 1..(Len(t) + 1) |->
            IF k < pos THEN [t[k] EXCEPT !.parent = move(@)]
            ELSE IF k = pos THEN [node EXCEPT !.parent = p]
            ELSE [t[k - 1] EXCEPT !.parent = move(@)]]

-----------------------------------------------------------------------------
(* File contents handed to the parsers.  "oversized" stands for a document  *)
(* libxml2 refuses without huge_tree (nesting beyond 256 levels, a text    *)
(* node beyond 10 MB) and expat accepts; "truncated" is <root><unclosed>.  *)
(* The text of a file is the number of XML declarations at its start, its  *)
(* document type declaration, the syntax it is written in ("xml" or        *)
(* "html"), and the markup of its elements with their prefix declarations. *)

Text(prolog, doctype, method, kind, doc, nsmap) ==
    [prolog |-> prolog, doctype |-> doctype, method |-> method,
     kind |-> kind, doc |-> doc, nsmap |-> nsmap]

\* a text in XML syntax without XML declaration and document type
Content(kind, doc, nsmap) == Text(0, None, "xml", kind, doc, nsmap)

Contents ==
    { Content("wellformed", d, EmptyMap) : d \in Docs }
    \cup { Content("oversized", d, EmptyMap) :
                d \in { x \in Docs : \A i \in 1..Len(x) : x[i].attrs = EmptyMap } }
    \cup { Content("truncated", NoTree, EmptyMap) }
    \cup UNION { { Content("wellformed", d, nsmap) : d \in UriDocs(nsmap) } :
                    nsmap \in NsMaps }
    \cup { Content("wellformed", d, EmptyMap) : d \in SvgDocs }

\* element text holding a carriage return, the same text with a line feed
\* in its place, and the markup that writes the carriage return as the
\* character reference &#13;
CR_TEXT      == "a\rb"
LF_TEXT      == "a\nb"
CR_REFERENCE == "a&#13;b"

\* the white space pretty_print writes in front of the first child
INDENT == "\n  "

\* what a parser makes of the characters between a start tag and the first
\* child: no characters are no text, a literal carriage return is read as a
\* line feed (XML 1.0, 2.11), a character reference as its character
ParsedText(markup) ==
    CASE markup = "" -> None
      [] markup = CR_TEXT -> LF_TEXT
      [] markup = CR_REFERENCE -> CR_TEXT
      [] OTHER -> markup

\* the elements a parser builds from well-formed markup
Parsed(doc) == [i \in 1..Len(doc) |-> [doc[i] EXCEPT !.text = ParsedText(@)]]

\* etree.fromstring(content): the tree, or XMLSyntaxError
lxml_fromstring(content) ==
    IF content.kind = "wellformed" THEN Return(Parsed(content.doc))
    ELSE Raise("XMLSyntaxError")

\* ET.fromstring(content): the tree, or ParseError
ET_fromstring(content) ==
    IF content.kind \in {"wellformed", "oversized"} THEN Return(Parsed(content.doc))
    ELSE Raise("ParseError")

-----------------------------------------------------------------------------
(* Files.  A path is the sequence of the parts of its name, <<"doc",       *)
(* ".xml">> for doc.xml, so that appending ".bak" and reading the suffix   *)
(* are what the code does with the string.                                 *)

DOC_XML == << "doc", ".xml" >>
OUT_XML == << "out", ".xml" >>

\* output_path=None (and the empty string, which "or" treats alike)
NoPath == << >>

\* f"{path}.bak", f"{path}.backup"
WithSuffix(path, suffix) == Append(path, suffix)

\* Path.suffix
Suffix(path) == IF Len(path) > 1 THEN path[Len(path)] ELSE ""

PIC_SVG   == << "pic", ".svg" >>
PAGE_HTML == << "page", ".html" >>
DOC       == << "doc" >>

File(path, text) == [path |-> path, text |-> text]

\* <svg xmlns="http://www.w3.org/2000/svg"><a/></svg> and the same root
\* without a child
SVG_DOC   == << Node(SVG_SVG, None, EmptyMap, 0), Node(SVG_A, None, EmptyMap, 1) >>
SVG_EMPTY == << Node(SVG_SVG, None, EmptyMap, 0) >>

\* <a xmlns="http://www.w3.org/2000/svg"><b xmlns=""/></a>: a root that is in
\* the SVG namespace and is not svg
SVG_NS_DOC == << Node(SVG_A, None, EmptyMap, 0), Node("b", None, EmptyMap, 1) >>

\* <html><body/></html>, <html><svg xmlns="..."/></html> (inline SVG) and
\* <b><html/></b>
HTML_DOC     == << Node("html", None, EmptyMap, 0), Node("body", None, EmptyMap, 1) >>
HTML_SVG_DOC == << Node("html", None, EmptyMap, 0), Node(SVG_SVG, None, EmptyMap, 1) >>
HTML_IN_DOC  == << Node("b", None, EmptyMap, 0), Node("html", None, EmptyMap, 1) >>

\* files of the three formats, with and without the XML declaration, the
\* HTML document type and a telling suffix
FormatFiles ==
    { File(PIC_SVG, Text(1, None, "xml", "wellformed", SVG_DOC, EmptyMap)),
      File(DOC_XML, Text(0, None, "xml", "wellformed", SVG_DOC, EmptyMap)),
      File(PIC_SVG, Text(0, None, "xml", "wellformed", SVG_EMPTY, EmptyMap)),
      File(DOC_XML, Text(1, None, "xml", "wellformed", SVG_NS_DOC, EmptyMap)),
      File(PAGE_HTML, Text(0, "html", "html", "wellformed", HTML_DOC, EmptyMap)),
      File(PAGE_HTML, Text(0, None, "html", "wellformed", HTML_DOC, EmptyMap)),
      File(DOC, Text(0, "html", "html", "wellformed", HTML_DOC, EmptyMap)),
      File(DOC_XML, Text(1, None, "xml", "wellformed", HTML_DOC, EmptyMap)),
      File(PAGE_HTML, Text(0, "html", "html", "wellformed", HTML_SVG_DOC, EmptyMap)),
      File(DOC, Text(0, None, "xml", "wellformed",
                     << Node("b", None, EmptyMap, 0), Node("a", None, EmptyMap, 1) >>,
                     EmptyMap)) }

\* the file an editor of class cls is constructed on.  <b><html/></b> is
\* loaded by xsl.editor alone: filex.cli hands it to lxml.html.fromstring as
\* a fragment, whose repair of the markup is outside the model.
SourceFiles(cls) ==
    { File(DOC_XML, c) : c \in Contents }
    \cup FormatFiles
    \cup (IF cls = "xsl"
          THEN { File(DOC_XML, Text(0, None, "xml", "wellformed", HTML_IN_DOC, EmptyMap)) }
          ELSE {})

\* the name a start tag is written with when its namespace is the default one
WrittenName(tag) ==
    CASE tag = SVG_SVG -> "svg"
      [] tag = SVG_A -> "a"
      [] OTHER -> tag

\* "'<svg' in content_lower", "'<html' in content_lower"
HasStartTag(content, name) ==
    \E i \in 1..Len(content.doc) : WrittenName(content.doc[i].tag) = name

\* FileEditor._load_file of filex.cli: self.file_type from the suffix and the
\* text; the XML declaration decides nothing, XML is the default as well
FilexFileType(path, content) ==
    IF Suffix(path) = ".svg" \/ HasStartTag(content, "svg") THEN "svg"
    ELSE IF Suffix(path) \in {".html", ".htm"} \/ content.doctype = "html"
            \/ HasStartTag(content, "html")
    THEN "html"
    ELSE IF Suffix(path) = ".xml" \/ content.prolog > 0 THEN "xml"
    ELSE "xml"

\* "'svg' in self.tree.tag": the tag with its namespace URI holds "svg"
HoldsSvg(tag) == tag \in {SVG_SVG, SVG_A}

\* FileEditor.detect_file_type of xsl.editor; "not self.tree" is true of an
\* element without children, find('.//html') looks below the root
xsl_detect_file_type(t) ==
    IF t = NoTree \/ Len(t) = 1 THEN "unknown"
    ELSE IF HoldsSvg(t[1].tag) THEN "svg"
    ELSE IF \E i \in 2..Len(t) : t[i].tag = "html" THEN "html"
    ELSE "xml"

\* FileEditor.__init__ of xsl.editor: the seeded registry
DefaultNs ==
    [p \in {"svg", "xlink", "html", "xhtml"} |->
        CASE p = "svg" -> SVG_URI
          [] p = "xlink" -> XLINK_URI
          [] OTHER -> XHTML_URI]

\* _parse_content after etree.fromstring: "for prefix, uri in
\* self.tree.nsmap.items(): self.ns[prefix] = uri"
UpdateNs(registry, nsmap) ==
    [p \in (DOMAIN registry) \cup (DOMAIN nsmap) |->
        IF p \in DOMAIN nsmap THEN nsmap[p] ELSE registry[p]]

\* _parse_content calling the fallback whether or not lxml succeeded
ParseAttemptsXsl_always_fallback(lxml, content) ==
    LET first == IF lxml THEN << [parser |-> "lxml", out |-> lxml_fromstring(content)] >>
                 ELSE << >>
    IN  Append(first, [parser |-> "et", out |-> ET_fromstring(content)])

\* _parse_content: the parsers called in order; the last entry decides
ParseAttemptsXsl(lxml, content) ==
    LET first == IF lxml THEN << [parser |-> "lxml", out |-> lxml_fromstring(content)] >>
                 ELSE << >>
    IN  IF lxml /\ lxml_fromstring(content).kind = "return" THEN first
        ELSE Append(first, [parser |-> "et", out |-> ET_fromstring(content)])

\* FileEditor._load_file of filex.cli: lxml, and on any exception
\* _fallback_parse; of a complete HTML document html.fromstring builds the
\* elements etree.fromstring builds
ParseAttemptsFilex(lxml, content) ==
    LET first == IF lxml THEN << [parser |-> "lxml", out |-> lxml_fromstring(content)] >>
                 ELSE << >>
    IN  IF lxml /\ lxml_fromstring(content).kind = "return" THEN first
        ELSE Append(first, [parser |-> "et", out |-> ET_fromstring(content)])

ParseAttempts(cls, lxml, content) ==
    IF cls = "xsl" THEN ParseAttemptsXsl(lxml, content)
    ELSE ParseAttemptsFilex(lxml, content)

\* the constructor: FileEditor(file_path) -> _load_file -> _parse_content
Load ==
    /\ phase = "new"
    /\ file_path \in DOMAIN disk
    /\ LET content == disk[file_path] IN
        /\ LET tries == ParseAttempts(editor, LXML_AVAILABLE, content)
               final == tries[Len(tries)]
           IN  /\ attempts' = [k \in 1..Len(tries) |->
                                [parser |-> tries[k].parser, ok |-> tries[k].out.kind = "return"]]
               /\ call' = [op |-> "load", content |-> content]
               /\ IF final.out.kind = "return"
                  THEN /\ tree' = final.out.val
                       /\ backend' = final.parser
                       /\ phase' = "loaded"
                       /\ ret' = Return(None)
                       /\ ns' = IF editor = "xsl" /\ final.parser = "lxml"
                                THEN UpdateNs(ns, content.nsmap)
                                ELSE ns
                  ELSE /\ tree' = NoTree
                       /\ backend' = None
                       /\ phase' = "failed"
                       /\ ret' = Raise([type |-> "ValueError", msg |-> "Cannot parse file",
                                        diagnostic |-> final.out.exc])
                       /\ ns' = ns
        /\ original_content' = content
        /\ file_type' = IF editor = "filex" THEN FilexFileType(file_path, content)
                        ELSE None
        /\ pre' = NoTree
        /\ UNCHANGED <<LXML_AVAILABLE, editor, file_path, disk, editors, requests>>

-----------------------------------------------------------------------------
(* Path expressions.  The evaluator is lxml's XPath or ElementTree's       *)
(* findall; the model covers //tag, .//tag, //tag[@id='1'] and a malformed *)
(* expression such as "invalid[xpath".                                     *)

Path(rel, tag, id) == [kind |-> "path", rel |-> rel, tag |-> tag, id |-> id]
Malformed == [kind |-> "malformed"]

Paths ==
    { Path(FALSE, "a", None), Path(FALSE, "*", None), Path(TRUE, "a", None),
      Path(FALSE, "a", "1"), Malformed }

\* a tag step with a prefix, as a caller writes it
SVG_STEP == "svg:a"

\* the expressions handed to query and find_by_xpath themselves
QueryPaths == Paths \cup { Path(TRUE, SVG_STEP, None), Path(FALSE, SVG_STEP, None) }

\* the tag a step names once lxml has resolved its prefix through the
\* namespaces passed in (svg is bound to its usual URI in both editors)
LxmlStep(tag) == IF tag = SVG_STEP THEN SVG_A ELSE tag

\* the step after query replaced "svg:" by "{'<uri>'}" for ElementTree: the
\* quotes stay inside the braces
EtStep(tag) == IF tag = SVG_STEP THEN "{'http://www.w3.org/2000/svg'}a" ELSE tag

Matches(node, path) ==
    /\ path.tag = "*" \/ node.tag = path.tag
    /\ path.id = None \/ MapGet(node.attrs, Plain("id")) = path.id

\* element.xpath(path): the matching elements in document order; "//" starts
\* at the document root (the root element included), ".//" below the context
lxml_xpath(t, path) ==
    SelectSeq(Indices(Len(t)),
              LAMBDA i : Matches(t[i], [path EXCEPT !.tag = LxmlStep(@)])
                            /\ (path.rel => i > 1))

\* Element.findall(path) of ElementTree: descendants in document order; an
\* absolute path raises SyntaxError("cannot use absolute path on element")
ET_findall(t, path) ==
    IF ~path.rel THEN Raise("SyntaxError")
    ELSE Return(SelectSeq(Indices(Len(t)), LAMBDA i : Matches(t[i], path) /\ i > 1))

\* FileEditor.query of xsl.editor
query(lxml, be, t, xpath) ==
    IF t = NoTree THEN Raise("ValueError")
    ELSE IF lxml
    THEN IF be # "lxml" THEN Raise("ValueError")    \* AttributeError: no .xpath
         ELSE IF xpath.kind = "malformed" THEN Raise("ValueError")
         ELSE Return(lxml_xpath(t, xpath))
    ELSE IF xpath.kind = "malformed" THEN Raise("ValueError")
         ELSE IF ET_findall(t, xpath).kind = "raise" THEN Raise("ValueError")
         ELSE ET_findall(t, [xpath EXCEPT !.tag = EtStep(@)])

\* FileEditor.find_by_xpath of filex.cli
find_by_xpath(lxml, be, t, xpath) ==
    IF ~lxml THEN Raise("NotImplementedError")
    ELSE IF be = "lxml"
    THEN IF xpath.kind = "malformed" THEN Raise("ValueError")
         ELSE Return(lxml_xpath(t, xpath))
    ELSE Return(<< >>)

-----------------------------------------------------------------------------
(* Operations of the editors: each yields the new tree and how it ended *)

Outcome(t, r) == [tree |-> t, ret |-> r]

SetTextAll(t, nodes, text) ==
    [i \in 1..Len(t) |->
        IF \E k \in 1..Len(nodes) : nodes[k] = i THEN [t[i] EXCEPT !.text = text]
        ELSE t[i]]

\* set_element_text touching the first match alone
xsl_set_element_text_first_only(lxml, be, t, xpath, text) ==
    LET elements == query(lxml, be, t, xpath)
    IN  IF elements.kind = "raise" THEN Outcome(t, elements)
        ELSE IF elements.val = << >> THEN Outcome(t, Return(FALSE))
        ELSE Outcome([t EXCEPT ![elements.val[1]].text = text], Return(TRUE))

\* FileEditor.set_element_text of xsl.editor
xsl_set_element_text(lxml, be, t, xpath, text) ==
    LET elements == query(lxml, be, t, xpath)
    IN  IF elements.kind = "raise" THEN Outcome(t, elements)
        ELSE IF elements.val = << >> THEN Outcome(t, Return(FALSE))
        ELSE Outcome(SetTextAll(t, elements.val, text), Return(TRUE))

\* FileEditor.set_element_text of filex.cli
filex_set_element_text(lxml, be, t, xpath, new_text) ==
    LET elements == find_by_xpath(lxml, be, t, xpath)
    IN  IF elements.kind = "raise" THEN Outcome(t, elements)
        ELSE IF elements.val = << >> THEN Outcome(t, Return(FALSE))
        ELSE Outcome([t EXCEPT ![elements.val[1]].text = new_text], Return(TRUE))

\* the texts handed to set_element_text: those of Values and one that holds
\* a carriage return
TextValues == Values \cup {CR_TEXT}

set_element_text ==
    /\ phase = "loaded"
    /\ \E xpath \in Paths, text \in TextValues :
        /\ LET out == IF editor = "xsl"
                      THEN xsl_set_element_text(LXML_AVAILABLE, backend, tree, xpath, text)
                      ELSE filex_set_element_text(LXML_AVAILABLE, backend, tree, xpath, text)
           IN  /\ tree' = out.tree
               /\ ret' = out.ret
        /\ pre' = tree
        /\ call' = [op |-> "set_element_text", xpath |-> xpath, text |-> text]
        /\ phase' = "done"
        /\ UNCHANGED <<LXML_AVAILABLE, editor, backend, ns, attempts>>
        /\ UNCHANGED <<file_path, original_content, file_type, disk, editors, requests>>

\* x or default: None and "" are falsy
PyOr(x, default) == IF x = None \/ x = "" THEN default ELSE x

\* FileEditor._get_attribute of xsl.editor
_get_attribute(registry, element, name) ==
    IF MapGet(element.attrs, Plain(name.raw)) # None
    THEN MapGet(element.attrs, Plain(name.raw))
    ELSE IF name.prefix = "xlink"
    THEN MapGet(element.attrs,
                Key(IF "xlink" \in DOMAIN registry THEN registry["xlink"] ELSE "", name.local))
    ELSE IF name.prefix # NoPrefix /\ name.prefix \in DOMAIN registry
    THEN MapGet(element.attrs, Key(registry[name.prefix], name.local))
    ELSE None

\* FileEditor.get_element_attribute of xsl.editor (default=None)
xsl_get_element_attribute(lxml, be, registry, t, xpath, attr_name) ==
    LET elements == query(lxml, be, t, xpath)
    IN  IF elements.kind = "raise" THEN elements
        ELSE IF elements.val = << >> THEN Return(None)
        ELSE Return(PyOr(_get_attribute(registry, t[elements.val[1]], attr_name), None))

\* FileEditor.get_element_attribute of filex.cli
filex_get_element_attribute(lxml, be, t, xpath, attr_name) ==
    LET elements == find_by_xpath(lxml, be, t, xpath)
    IN  IF elements.kind = "raise" THEN elements
        ELSE IF elements.val = << >> THEN Return("")
        ELSE IF Plain(attr_name.raw) \in DOMAIN t[elements.val[1]].attrs
        THEN Return(t[elements.val[1]].attrs[Plain(attr_name.raw)])
        ELSE Return("")

\* FileEditor.get_element_text of xsl.editor (default="")
xsl_get_element_text(lxml, be, t, xpath) ==
    LET elements == query(lxml, be, t, xpath)
    IN  IF elements.kind = "raise" THEN elements
        ELSE IF elements.val = << >> THEN Return("")
        ELSE Return(PyOr(t[elements.val[1]].text, ""))

\* FileEditor.get_element_text of filex.cli
filex_get_element_text(lxml, be, t, xpath) ==
    LET elements == find_by_xpath(lxml, be, t, xpath)
    IN  IF elements.kind = "raise" THEN elements
        ELSE IF elements.val = << >> THEN Return("")
        ELSE Return(PyOr(t[elements.val[1]].text, ""))

\* the loop of set_element_attribute over the matched elements
RECURSIVE SetAttrEach(_, _, _, _, _)
SetAttrEach(registry, t, nodes, attr_name, attr_value) ==
    IF nodes = << >> THEN [tree |-> t, modified |-> FALSE]
    ELSE LET rest == SetAttrEach(registry, t, Tail(nodes), attr_name, attr_value)
             i == Head(nodes)
         IN  IF attr_name.prefix # NoPrefix
             THEN IF attr_name.prefix \in DOMAIN registry
                  THEN [tree |-> [rest.tree EXCEPT ![i].attrs =
                                    MapSet(@, Key(registry[attr_name.prefix], attr_name.local),
                                           attr_value)],
                        modified |-> TRUE]
                  ELSE rest
             ELSE [tree |-> [rest.tree EXCEPT ![i].attrs =
                                MapSet(@, Plain(attr_name.raw), attr_value)],
                   modified |-> TRUE]

\* set_element_attribute storing a prefixed name as written, unresolved
xsl_set_element_attribute_unresolved(lxml, be, registry, t, xpath, attr_name, attr_value) ==
    LET elements == query(lxml, be, t, xpath)
    IN  IF elements.kind = "raise" THEN Outcome(t, elements)
        ELSE IF elements.val = << >> THEN Outcome(t, Return(FALSE))
        ELSE Outcome([i \in 1..Len(t) |->
                        IF \E k \in 1..Len(elements.val) : elements.val[k] = i
                        THEN [t[i] EXCEPT !.attrs = MapSet(@, Plain(attr_name.raw), attr_value)]
                        ELSE t[i]],
                     Return(TRUE))

\* FileEditor.set_element_attribute of xsl.editor
xsl_set_element_attribute(lxml, be, registry, t, xpath, attr_name, attr_value) ==
    LET elements == query(lxml, be, t, xpath)
    IN  IF elements.kind = "raise" THEN Outcome(t, elements)
        ELSE IF elements.val = << >> THEN Outcome(t, Return(FALSE))
        ELSE LET done == SetAttrEach(registry, t, elements.val, attr_name, attr_value)
             IN  Outcome(done.tree, Return(done.modified))

\* element.set(name, value) of lxml on an XML element: a name holding ":" is
\* refused with ValueError("Invalid attribute name")
lxml_set(attrs, name, value) ==
    IF name.prefix # NoPrefix THEN Raise("ValueError")
    ELSE Return(MapSet(attrs, Plain(name.raw), value))

\* FileEditor.set_element_attribute of filex.cli
filex_set_element_attribute(lxml, be, t, xpath, attr_name, attr_value) ==
    LET elements == find_by_xpath(lxml, be, t, xpath)
    IN  IF elements.kind = "raise" THEN Outcome(t, elements)
        ELSE IF elements.val = << >> THEN Outcome(t, Return(FALSE))
        ELSE LET i == elements.val[1]
                 set == lxml_set(t[i].attrs, attr_name, attr_value)
             IN  IF set.kind = "raise" THEN Outcome(t, set)
                 ELSE Outcome([t EXCEPT ![i].attrs = set.val], Return(TRUE))

set_element_attribute ==
    /\ phase = "loaded"
    /\ \E xpath \in Paths, attr_name \in AttrNames, attr_value \in Values :
        /\ LET out == IF editor = "xsl"
                      THEN xsl_set_element_attribute(LXML_AVAILABLE, backend, ns, tree,
                                                     xpath, attr_name, attr_value)
                      ELSE filex_set_element_attribute(LXML_AVAILABLE, backend, tree,
                                                       xpath, attr_name, attr_value)
           IN  /\ tree' = out.tree
               /\ ret' = out.ret
        /\ pre' = tree
        /\ call' = [op |-> "set_element_attribute", xpath |-> xpath,
                    attr_name |-> attr_name, attr_value |-> attr_value]
        /\ phase' = "done"
        /\ UNCHANGED <<LXML_AVAILABLE, editor, backend, ns, attempts>>
        /\ UNCHANGED <<file_path, original_content, file_type, disk, editors, requests>>

\* the attribute dicts callers pass to add_element, as item sequences
AttrDicts ==
    { << >>,
      << <<Name(NoPrefix, "fill", "fill"), "v">> >>,
      << <<Name(NoPrefix, "fill", "fill"), "v">>, <<Name("xlink", "href", "xlink:href"), "v">> >> }

\* the loop "for key, value in attributes.items(): new_element.set(key, value)"
RECURSIVE SetItems(_, _)
SetItems(attrs, items) ==
    IF items = << >> THEN [attrs |-> attrs, raised |-> FALSE]
    ELSE LET set == lxml_set(attrs, Head(items)[1], Head(items)[2])
         IN  IF set.kind = "raise" THEN [attrs |-> attrs, raised |-> TRUE]
             ELSE SetItems(set.val, Tail(items))

\* FileEditor.add_element of filex.cli
filex_add_element(lxml, be, t, parent_xpath, tag_name, text, attributes) ==
    LET parents == find_by_xpath(lxml, be, t, parent_xpath)
    IN  IF parents.kind = "raise" THEN Outcome(t, parents)
        ELSE IF parents.val = << >> THEN Outcome(t, Return(FALSE))
        ELSE LET parent == parents.val[1]
                 items == SetItems(EmptyMap, attributes)
                 new_element == Node(tag_name, IF text # "" THEN text ELSE None,
                                     items.attrs, parent)
                 grown == AppendChild(t, parent, new_element)
             IN  IF items.raised THEN Outcome(grown, Raise("ValueError"))
                 ELSE Outcome(grown, Return(TRUE))

\* editor.add_element(...) as xsl/server.py and xsl/cli.py call it on an
\* xsl.editor.FileEditor, which defines no add_element
xsl_add_element(t) == Outcome(t, Raise("AttributeError"))

add_element ==
    /\ phase = "loaded"
    /\ \E parent_xpath \in Paths, tag_name \in Tags, text \in Values,
          attributes \in AttrDicts :
        /\ LET out == IF editor = "xsl" THEN xsl_add_element(tree)
                      ELSE filex_add_element(LXML_AVAILABLE, backend, tree,
                                             parent_xpath, tag_name, text, attributes)
           IN  /\ tree' = out.tree
               /\ ret' = out.ret
        /\ pre' = tree
        /\ call' = [op |-> "add_element", xpath |-> parent_xpath, tag_name |-> tag_name,
                    text |-> text, attributes |-> attributes]
        /\ phase' = "done"
        /\ UNCHANGED <<LXML_AVAILABLE, editor, backend, ns, attempts>>
        /\ UNCHANGED <<file_path, original_content, file_type, disk, editors, requests>>

\* remove_element taking the last match instead of the first
filex_remove_element_last(lxml, be, t, xpath) ==
    LET elements == find_by_xpath(lxml, be, t, xpath)
    IN  IF elements.kind = "raise" THEN Outcome(t, elements)
        ELSE IF elements.val = << >> THEN Outcome(t, Return(FALSE))
        ELSE LET element == elements.val[Len(elements.val)]
             IN  IF t[element].parent # 0
                 THEN Outcome(RemoveSubtree(t, element), Return(TRUE))
                 ELSE Outcome(t, Return(FALSE))

\* FileEditor.remove_element of filex.cli
filex_remove_element(lxml, be, t, xpath) ==
    LET elements == find_by_xpath(lxml, be, t, xpath)
    IN  IF elements.kind = "raise" THEN Outcome(t, elements)
        ELSE IF elements.val = << >> THEN Outcome(t, Return(FALSE))
        ELSE LET element == elements.val[1]
             IN  IF t[element].parent # 0
                 THEN Outcome(RemoveSubtree(t, element), Return(TRUE))
                 ELSE Outcome(t, Return(FALSE))

\* editor.remove_element(xpath) as xsl/server.py and xsl/cli.py call it on an
\* xsl.editor.FileEditor, which defines no remove_element
xsl_remove_element(t) == Outcome(t, Raise("AttributeError"))

remove_element ==
    /\ phase = "loaded"
    /\ \E xpath \in Paths :
        /\ LET out == IF editor = "xsl" THEN xsl_remove_element(tree)
                      ELSE filex_remove_element(LXML_AVAILABLE, backend, tree, xpath)
           IN  /\ tree' = out.tree
               /\ ret' = out.ret
        /\ pre' = tree
        /\ call' = [op |-> "remove_element", xpath |-> xpath]
        /\ phase' = "done"
        /\ UNCHANGED <<LXML_AVAILABLE, editor, backend, ns, attempts>>
        /\ UNCHANGED <<file_path, original_content, file_type, disk, editors, requests>>

-----------------------------------------------------------------------------
(* Strings of xsl/utils.py.  A str is a sequence of code points, a bytes    *)
(* object a sequence of numbers 0..255.                                    *)

\* the printable ASCII characters, code points 32..126 (the grave accent,
\* code point 96, is written out)
ASCII ==
    << " ", "!", "\"", "#", "$", "%", "&", "'", "(", ")", "*", "+", ",", "-", ".", "/",
       "0", "1", "2", "3", "4", "5", "6", "7", "8", "9", ":", ";", "<", "=", ">", "?",
       "@", "A", "B", "C", "D", "E", "F", "G", "H", "I", "J", "K", "L", "M", "N", "O",
       "P", "Q", "R", "S", "T", "U", "V", "W", "X", "Y", "Z", "[", "\\", "]", "^", "_",
       "<grave>", "a", "b", "c", "d", "e", "f", "g", "h", "i", "j", "k", "l", "m", "n", "o",
       "p", "q", "r", "s", "t", "u", "v", "w", "x", "y", "z", "{", "|", "}", "~" >>

\* ord(ch)
Ord(ch) == 31 + (CHOOSE i \in 1..Len(ASCII) : ASCII[i] = ch)

\* a str literal, written character by character
Str(chars) == [i \in 1..Len(chars) |-> Ord(chars[i])]

EmptyStr == << >>

\* the literals of the pattern and of the f-strings
DATA_SCHEME == Str(<<"d", "a", "t", "a", ":">>)
CHARSET_EQ  == Str(<<";", "c", "h", "a", "r", "s", "e", "t", "=">>)
BASE64_MARK == Str(<<";", "b", "a", "s", "e", "6", "4">>)
COMMA       == Str(<<",">>)
TEXT_PLAIN  == Str(<<"t", "e", "x", "t", "/", "p", "l", "a", "i", "n">>)
UTF_8       == Str(<<"u", "t", "f", "-", "8">>)
SLASH       == Ord("/")
PLUS        == Ord("+")
SEMICOLON   == Ord(";")
PERCENT     == Ord("%")
PAD         == Ord("=")

Upper == 65..90
LowerCase == 97..122
Digits == 48..57

\* re.IGNORECASE: a pattern character matches either case
Lower(c) == IF c \in Upper THEN c + 32 ELSE c

\* "\n", which "." does not match
NEWLINE == 10

\* "." over the characters of the model
Dot == (0..255) \ {NEWLINE}

\* [a-z] under IGNORECASE
MimeTypeClass == Upper \cup LowerCase

\* [a-z0-9\-+.] under IGNORECASE
MimeSubtypeClass == Upper \cup LowerCase \cup Digits \cup {Ord("-"), Ord("+"), Ord(".")}

\* [a-z0-9\-] under IGNORECASE
CharsetClass == Upper \cup LowerCase \cup Digits \cup {Ord("-")}

\* X+ at position i: the index after the longest run of class characters
RECURSIVE Run(_, _, _)
Run(s, i, class) ==
    IF i <= Len(s) /\ s[i] \in class THEN Run(s, i + 1, class) ELSE i

\* the literal at position i compared as written, without re.IGNORECASE
HasAt_case_sensitive(s, i, lit) ==
    /\ i + Len(lit) - 1 <= Len(s)
    /\ \A k \in 1..Len(lit) : s[i + k - 1] = lit[k]

\* a lower-case literal at position i, in either case
HasAt(s, i, lit) ==
    /\ i + Len(lit) - 1 <= Len(s)
    /\ \A k \in 1..Len(lit) : Lower(s[i + k - 1]) = lit[k]

\* match.group(name): None when the group took no part in the match
NoGroup == [matched |-> FALSE]
Group(text) == [matched |-> TRUE, text |-> text]

\* match.group(name) or default
GroupOr(group, default) ==
    IF group.matched /\ group.text # EmptyStr THEN group.text ELSE default

NoMatch == [ok |-> FALSE]

\* (?P<mime>[a-z]+/[a-z0-9\-+.]+)? at position m0: the index after the group,
\* m0 itself when the group does not match
MimeEnd(uri, m0, m1) ==
    IF m1 > m0 /\ m1 <= Len(uri) /\ uri[m1] = SLASH
          /\ Run(uri, m1 + 1, MimeSubtypeClass) > m1 + 1
    THEN Run(uri, m1 + 1, MimeSubtypeClass) ELSE m0

\* (?P<charset>;charset=[a-z0-9\-]+)? at position c0
CharsetEnd(uri, c0) ==
    IF HasAt(uri, c0, CHARSET_EQ)
          /\ Run(uri, c0 + Len(CHARSET_EQ), CharsetClass) > c0 + Len(CHARSET_EQ)
    THEN Run(uri, c0 + Len(CHARSET_EQ), CharsetClass) ELSE c0

\* (?P<base64>;base64)? at position b0
Base64End(uri, b0) ==
    IF HasAt(uri, b0, BASE64_MARK) THEN b0 + Len(BASE64_MARK) ELSE b0

\* a group between two positions: None when it is empty
GroupAt(uri, from, to) ==
    IF to > from THEN Group(SubSeq(uri, from, to - 1)) ELSE NoGroup

\* ,(?P<data>.*)$ at position d0, and the match object.  ".*$" takes the
\* rest of the string when it holds no newline, or all but a final newline.
MatchData(uri, m0, c0, b0, d0, rest) ==
    IF d0 <= Len(uri) /\ uri[d0] = COMMA[1] /\ Run(rest, 1, Dot) >= Len(rest)
    THEN [ok |-> TRUE,
          mime |-> GroupAt(uri, m0, c0),
          charset |-> GroupAt(uri, c0, b0),
          base64 |-> GroupAt(uri, b0, d0),
          data |-> SubSeq(rest, 1, Run(rest, 1, Dot) - 1)]
    ELSE NoMatch

MatchBase64(uri, m0, c0, b0, d0) ==
    MatchData(uri, m0, c0, b0, d0, SubSeq(uri, d0 + 1, Len(uri)))

MatchCharset(uri, m0, c0, b0) == MatchBase64(uri, m0, c0, b0, Base64End(uri, b0))

MatchMime(uri, m0, c0) == MatchCharset(uri, m0, c0, CharsetEnd(uri, c0))

\* DATA_URI_PATTERN.match(uri).  Every optional group is greedy and the
\* character after it cannot belong to it, so the scan never backtracks.
DATA_URI_PATTERN(uri) ==
    IF ~HasAt(uri, 1, DATA_SCHEME) THEN NoMatch
    ELSE MatchMime(uri, Len(DATA_SCHEME) + 1,
                   MimeEnd(uri, Len(DATA_SCHEME) + 1,
                           Run(uri, Len(DATA_SCHEME) + 1, MimeTypeClass)))

\* is_data_uri
is_data_uri(uri) == DATA_URI_PATTERN(uri).ok

\* str.lstrip(chars)
RECURSIVE lstrip(_, _)
lstrip(s, chars) ==
    IF s # EmptyStr /\ Head(s) \in chars THEN lstrip(Tail(s), chars) ELSE s

-----------------------------------------------------------------------------
(* base64, utf-8 and percent-encoding as the standard library performs them *)

\* table_b2a_base64: the character of a 6-bit value
B64Char(v) ==
    IF v < 26 THEN 65 + v
    ELSE IF v < 52 THEN 71 + v
    ELSE IF v < 62 THEN v - 4
    ELSE IF v = 62 THEN PLUS ELSE SLASH

\* table_a2b_base64: the 6-bit value of a character, 64 outside the alphabet
B64Value(c) ==
    IF c \in Upper THEN c - 65
    ELSE IF c \in LowerCase THEN c - 71
    ELSE IF c \in Digits THEN c + 4
    ELSE IF c = PLUS THEN 62
    ELSE IF c = SLASH THEN 63
    ELSE 64

\* base64.b64encode(data).decode('ascii')
RECURSIVE b64encode(_)
b64encode(data) ==
    IF data = << >> THEN EmptyStr
    ELSE IF Len(data) = 1
    THEN << B64Char(data[1] \div 4), B64Char((data[1] % 4) * 16), PAD, PAD >>
    ELSE IF Len(data) = 2
    THEN << B64Char(data[1] \div 4),
            B64Char(((data[1] % 4) * 16) + (data[2] \div 16)),
            B64Char((data[2] % 16) * 4), PAD >>
    ELSE << B64Char(data[1] \div 4),
            B64Char(((data[1] % 4) * 16) + (data[2] \div 16)),
            B64Char(((data[2] % 16) * 4) + (data[3] \div 64)),
            B64Char(data[3] % 64) >> \o b64encode(SubSeq(data, 4, Len(data)))

\* binascii.a2b_base64(s, strict_mode=True), the loop over the characters from
\* position i on; st is (quad_pos, leftchar, pads, padding_started, bin_data)
RECURSIVE a2b_base64(_, _, _)
a2b_base64(s, i, st) ==
    IF i > Len(s)
    THEN IF st.quad_pos # 0 THEN Raise("binascii.Error") ELSE Return(st.bin_data)
    ELSE IF s[i] = PAD
    THEN IF st.quad_pos >= 2 /\ st.quad_pos + st.pads + 1 >= 4
         THEN IF i < Len(s) THEN Raise("binascii.Error")   \* excess data after padding
              ELSE Return(st.bin_data)
         ELSE a2b_base64(s, i + 1,
                         [st EXCEPT !.padding_started = TRUE,
                                    !.pads = IF st.quad_pos >= 2 THEN @ + 1 ELSE @])
    ELSE IF B64Value(s[i]) >= 64 THEN Raise("binascii.Error")   \* only base64 data
    ELSE IF st.padding_started THEN Raise("binascii.Error")     \* discontinuous padding
    ELSE LET this_ch == B64Value(s[i])
         IN  a2b_base64(s, i + 1,
                CASE st.quad_pos = 0 ->
                       [st EXCEPT !.quad_pos = 1, !.leftchar = this_ch, !.pads = 0]
                  [] st.quad_pos = 1 ->
                       [st EXCEPT !.quad_pos = 2, !.leftchar = this_ch % 16, !.pads = 0,
                                  !.bin_data = Append(@, (st.leftchar * 4) + (this_ch \div 16))]
                  [] st.quad_pos = 2 ->
                       [st EXCEPT !.quad_pos = 3, !.leftchar = this_ch % 4, !.pads = 0,
                                  !.bin_data = Append(@, (st.leftchar * 16) + (this_ch \div 4))]
                  [] OTHER ->
                       [st EXCEPT !.quad_pos = 0, !.leftchar = 0, !.pads = 0,
                                  !.bin_data = Append(@, (st.leftchar * 64) + this_ch)])

\* base64.b64decode(s, validate=True) of a str: the str must be ASCII, must not
\* start with the pad character, and is then decoded strictly
b64decode(s) ==
    IF \E k \in 1..Len(s) : s[k] >= 128 THEN Raise("ValueError")
    ELSE IF s # EmptyStr /\ s[1] = PAD THEN Raise("binascii.Error")   \* leading padding
    ELSE a2b_base64(s, 1, [quad_pos |-> 0, leftchar |-> 0, pads |-> 0,
                           padding_started |-> FALSE, bin_data |-> << >>])

\* str.encode('utf-8') for code points below 0x800
RECURSIVE utf8_encode(_)
utf8_encode(text) ==
    IF text = EmptyStr THEN << >>
    ELSE (IF Head(text) < 128 THEN << Head(text) >>
          ELSE << 192 + (Head(text) \div 64), 128 + (Head(text) % 64) >>)
         \o utf8_encode(Tail(text))

\* the code point of e-acute, a character outside ASCII
E_ACUTE == 233

LATIN_1 == Str(<<"l", "a", "t", "i", "n", "-", "1">>)

\* str.encode(charset) for the characters of the model: utf-8 as above,
\* latin-1 one byte per code point below 256, any other charset of the model
\* one byte per ASCII character and no byte for e-acute
encode(text, charset) ==
    IF charset = UTF_8 THEN Return(utf8_encode(text))
    ELSE IF charset = LATIN_1 THEN Return(text)
    ELSE IF \E k \in 1..Len(text) : text[k] >= 128 THEN Raise("UnicodeEncodeError")
    ELSE Return(text)

\* bytes.decode(charset) for the payload bytes of the model: an ASCII byte is
\* its character; 0xFF is no character in utf-8 nor in Shift_JIS
decode(data, charset) ==
    IF \E k \in 1..Len(data) : data[k] >= 128 THEN Raise("UnicodeDecodeError")
    ELSE Return(data)

\* the hexadecimal digit of a 4-bit value, upper case
HexDigit(v) == IF v < 10 THEN 48 + v ELSE 55 + v

\* the characters urllib.parse.quote leaves alone: letters, digits, "_.-~"
\* and the default safe character "/"
QuoteSafe ==
    Upper \cup LowerCase \cup Digits
        \cup {Ord("_"), Ord("."), Ord("-"), Ord("~"), Ord("/")}

RECURSIVE QuoteBytes(_)
QuoteBytes(bytes) ==
    IF bytes = << >> THEN EmptyStr
    ELSE (IF Head(bytes) \in QuoteSafe THEN << Head(bytes) >>
          ELSE << PERCENT, HexDigit(Head(bytes) \div 16), HexDigit(Head(bytes) % 16) >>)
         \o QuoteBytes(Tail(bytes))

\* urllib.parse.quote(text)
quote(text) == QuoteBytes(utf8_encode(text))

-----------------------------------------------------------------------------
(* The data-URI codec of xsl/utils.py *)

InvalidDataURI == [type |-> "ValueError", msg |-> "Invalid data URI"]
InvalidBase64  == [type |-> "ValueError", msg |-> "Invalid base64 data"]

\* parse_data_uri from "Convert data to bytes" on
ParseBytes(mime, charset, is_base64, data_bytes) ==
    IF data_bytes.kind = "raise" THEN Raise(InvalidBase64)
    ELSE Return([mime_type |-> mime,
                 mime |-> mime,
                 encoding |-> IF is_base64 THEN "base64" ELSE "utf-8",
                 charset |-> charset,
                 is_base64 |-> is_base64,
                 data |-> data_bytes.val])

\* parse_data_uri after the match
ParseMatch(match) ==
    IF ~match.ok THEN Raise(InvalidDataURI)
    ELSE ParseBytes(GroupOr(match.mime, TEXT_PLAIN),
                    lstrip(GroupOr(match.charset, CHARSET_EQ \o UTF_8), {SEMICOLON}),
                    match.base64.matched,
                    IF match.base64.matched THEN b64decode(match.data)
                    ELSE Return(utf8_encode(match.data)))

\* parse_data_uri
parse_data_uri(uri) == ParseMatch(DATA_URI_PATTERN(uri))

\* create_data_uri
create_data_uri(data, mime, charset, base64_encode) ==
    IF base64_encode
    THEN Return(DATA_SCHEME \o mime \o CHARSET_EQ \o charset \o BASE64_MARK \o COMMA
                    \o b64encode(data))
    ELSE LET text == decode(data, charset)
         IN  IF text.kind = "raise" THEN text
             ELSE Return(DATA_SCHEME \o mime \o CHARSET_EQ \o charset \o COMMA
                             \o quote(text.val))

\* the payload bytes of the model: "%", "A" and 0xFF
Bytes == {PERCENT, Ord("A"), 255}

Payloads == UNION { [1..n -> Bytes] : n \in 0..MaxPayload }

\* the mime types and charsets handed to create_data_uri
Mimes ==
    { TEXT_PLAIN,
      Str(<<"x", "-", "w", "o", "r", "l", "d", "/", "x", "-", "v", "r", "m", "l">>) }

Charsets == { UTF_8, Str(<<"S", "h", "i", "f", "t", "_", "J", "I", "S">>) }

\* a string handed to is_data_uri and parse_data_uri, as the pieces it was
\* written from
Parts(head, mime, charset, base64, comma, data) ==
    [head |-> head, mime |-> mime, charset |-> charset, base64 |-> base64,
     comma |-> comma, data |-> data]

Compose(parts) ==
    parts.head \o parts.mime \o parts.charset \o parts.base64 \o parts.comma \o parts.data

\* the characters of the data segments: a base64 digit, the pad and a
\* character outside the base64 alphabet
DataChars == {Ord("Q"), PAD, PERCENT}

\* the characters of the text segments: a letter and a character outside ASCII
TextChars == {Ord("A"), E_ACUTE}

DataSegments ==
    UNION { [1..n -> DataChars] : n \in 0..MaxData }
        \cup UNION { [1..n -> TextChars] : n \in 1..MaxPayload }

\* the charsets a string declares: those handed to create_data_uri and one
\* more inside the character class of the pattern
DeclaredCharsets == Charsets \cup {LATIN_1}

\* the strings of the model: with and without the scheme (in either case),
\* a mime type, a charset parameter, the base64 marker and the comma
UriParts ==
    { Parts(head, mime, charset, base64, comma, data) :
        head \in {DATA_SCHEME, Str(<<"D", "A", "T", "A", ":">>), Str(<<"d", "a", "t", ":">>)},
        mime \in {EmptyStr} \cup Mimes,
        charset \in {EmptyStr} \cup {CHARSET_EQ \o c : c \in DeclaredCharsets},
        base64 \in {EmptyStr, BASE64_MARK},
        comma \in {EmptyStr, COMMA},
        data \in DataSegments }

\* the pieces of the string create_data_uri returned for a call
BuiltParts(made, uri) ==
    LET marker == IF made.base64_encode THEN BASE64_MARK ELSE EmptyStr
        start == Len(DATA_SCHEME) + Len(made.mime) + Len(CHARSET_EQ) + Len(made.charset)
                    + Len(marker) + Len(COMMA)
    IN  Parts(DATA_SCHEME, made.mime, CHARSET_EQ \o made.charset, marker, COMMA,
              SubSeq(uri, start + 1, Len(uri)))

\* what is_data_uri and parse_data_uri are called with: any string of the
\* model, or the string the preceding create_data_uri returned
UriInputs ==
    IF call.op = "none"
    THEN { [uri |-> Compose(parts), parts |-> parts, made |-> call] : parts \in UriParts }
    ELSE IF call.op = "create_data_uri" /\ ret.kind = "return"
    THEN { [uri |-> ret.val, parts |-> BuiltParts(call, ret.val), made |-> call] }
    ELSE {}

CallCreateDataUri ==
    /\ phase = "codec"
    /\ call.op = "none"
    /\ \E data \in Payloads, mime \in Mimes, charset \in Charsets, base64_encode \in BOOLEAN :
        /\ call' = [op |-> "create_data_uri", data |-> data, mime |-> mime,
                    charset |-> charset, base64_encode |-> base64_encode]
        /\ ret' = create_data_uri(data, mime, charset, base64_encode)
    /\ UNCHANGED <<LXML_AVAILABLE, editor, phase, tree, backend, ns, attempts, pre>>
    /\ UNCHANGED <<file_path, original_content, file_type, disk, editors, requests>>

CallIsDataUri ==
    /\ phase = "codec"
    /\ \E in \in UriInputs :
        /\ call' = [op |-> "is_data_uri", uri |-> in.uri, parts |-> in.parts,
                    made |-> in.made]
        /\ ret' = Return(is_data_uri(in.uri))
    /\ UNCHANGED <<LXML_AVAILABLE, editor, phase, tree, backend, ns, attempts, pre>>
    /\ UNCHANGED <<file_path, original_content, file_type, disk, editors, requests>>

CallParseDataUri ==
    /\ phase = "codec"
    /\ \E in \in UriInputs :
        /\ call' = [op |-> "parse_data_uri", uri |-> in.uri, parts |-> in.parts,
                    made |-> in.made]
        /\ ret' = parse_data_uri(in.uri)
    /\ UNCHANGED <<LXML_AVAILABLE, editor, phase, tree, backend, ns, attempts, pre>>
    /\ UNCHANGED <<file_path, original_content, file_type, disk, editors, requests>>

\* the codec reads neither the flag nor an editor: they stay as first set
InitCodec ==
    /\ LXML_AVAILABLE = TRUE
    /\ editor = "xsl"
    /\ phase = "codec"
    /\ tree = NoTree
    /\ backend = None
    /\ ns = DefaultNs
    /\ attempts = << >>
    /\ pre = NoTree
    /\ call = [op |-> "none"]
    /\ ret = Return(None)
    /\ file_path = NoPath
    /\ original_content = None
    /\ file_type = None
    /\ disk = EmptyMap
    /\ editors = << >>
    /\ requests = << >>

NextCodec ==
    \/ CallCreateDataUri
    \/ CallIsDataUri
    \/ CallParseDataUri

SpecCodec == InitCodec /\ [][NextCodec]_vars

-----------------------------------------------------------------------------
(* Reading attributes and embedded data out of a loaded document *)

IMAGE_PNG == Str(<<"i", "m", "a", "g", "e", "/", "p", "n", "g">>)
COLON     == Ord(":")

\* the characters of an attribute value
Chars(value) ==
    CASE value = PNG_DATA_URI ->
            DATA_SCHEME \o IMAGE_PNG \o BASE64_MARK \o COMMA \o Str(<<"Q", "Q", "=", "=">>)
      [] value = TEXT_DATA_URI -> DATA_SCHEME \o TEXT_PLAIN \o COMMA \o Str(<<"A">>)
      [] value = FILE_NAME -> Str(<<"x", ".", "p", "n", "g">>)
      [] value = "v" -> Str(<<"v">>)
      [] OTHER -> EmptyStr

\* an expression ending in an attribute step: <element path>/@<name>
AttrPath(element, attr) == [kind |-> "attr", element |-> element, attr |-> attr]

XLINK_HREF == Name("xlink", "href", "xlink:href")
HREF       == Name(NoPrefix, "href", "href")
SRC        == Name(NoPrefix, "src", "src")
DATA       == Name(NoPrefix, "data", "data")

\* the expressions handed to extract_data_uri
ExtractPaths ==
    Paths \cup { AttrPath(element, attr) :
                    element \in {Path(FALSE, "a", None), Path(TRUE, "a", None)},
                    attr \in {XLINK_HREF, HREF, SRC} }

\* element.xpath of an expression ending in /@name: the values of that
\* attribute on the matched elements, in document order (strings, not
\* elements); a prefix is resolved through the namespaces passed in
lxml_xpath_attr(namespaces, t, path) ==
    IF path.element.kind = "malformed" THEN Raise("XPathEvalError")
    ELSE IF path.attr.prefix # NoPrefix /\ path.attr.prefix \notin DOMAIN namespaces
    THEN Raise("XPathEvalError")
    ELSE LET key == IF path.attr.prefix = NoPrefix THEN Plain(path.attr.raw)
                    ELSE Key(namespaces[path.attr.prefix], path.attr.local)
             owners == SelectSeq(lxml_xpath(t, path.element),
                                 LAMBDA i : key \in DOMAIN t[i].attrs)
         IN  Return([k \in 1..Len(owners) |-> t[owners[k]].attrs[key]])

\* FileEditor.query of xsl.editor on any expression of the model; ElementTree
\* has no attribute step (KeyError '@' inside findall)
query_ns(lxml, be, registry, t, xpath) ==
    IF xpath.kind # "attr" THEN query(lxml, be, t, xpath)
    ELSE IF t = NoTree THEN Raise("ValueError")
    ELSE IF ~lxml \/ be # "lxml" THEN Raise("ValueError")
    ELSE IF lxml_xpath_attr(registry, t, xpath).kind = "raise" THEN Raise("ValueError")
    ELSE lxml_xpath_attr(registry, t, xpath)

\* the namespaces find_by_xpath of filex.cli registers
FilexNs ==
    [p \in {"svg", "xlink", "html"} |->
        CASE p = "svg" -> SVG_URI
          [] p = "xlink" -> XLINK_URI
          [] OTHER -> XHTML_URI]

\* FileEditor.find_by_xpath of filex.cli on any expression of the model
find_by_xpath_ns(lxml, be, t, xpath) ==
    IF xpath.kind # "attr" THEN find_by_xpath(lxml, be, t, xpath)
    ELSE IF ~lxml THEN Raise("NotImplementedError")
    ELSE IF be # "lxml" THEN Return(<< >>)
    ELSE IF lxml_xpath_attr(FilexNs, t, xpath).kind = "raise" THEN Raise("ValueError")
    ELSE lxml_xpath_attr(FilexNs, t, xpath)

\* "uri and is_data_uri(uri)"
IsDataUriValue(uri) == uri # None /\ uri # "" /\ is_data_uri(Chars(uri))

\* the attributes extract_data_uri of xsl.editor tries on every element
COMMON_ATTRS == << XLINK_HREF, HREF, DATA, SRC >>

\* the body of "for elem in elements" for one element: the first data URI
\* among the names tried in order, or None
RECURSIVE FirstDataUri(_, _, _)
FirstDataUri(registry, element, names) ==
    IF names = << >> THEN None
    ELSE IF IsDataUriValue(_get_attribute(registry, element, Head(names)))
    THEN _get_attribute(registry, element, Head(names))
    ELSE FirstDataUri(registry, element, Tail(names))

\* "for elem in elements": the first data URI found on any element, or None
RECURSIVE ScanElements(_, _, _, _)
ScanElements(registry, t, elements, names) ==
    IF elements = << >> THEN None
    ELSE IF FirstDataUri(registry, t[Head(elements)], names) # None
    THEN FirstDataUri(registry, t[Head(elements)], names)
    ELSE ScanElements(registry, t, Tail(elements), names)

\* the dicts extract_data_uri of xsl.editor returns without a data URI
NoElementsXPATH == [error |-> "No elements found matching XPATH"]
NoElementsFound == [error |-> "No elements found matching XPath"]
NoDataUriFound ==
    [error |-> "No data URI found in element attributes",
     mime_type |-> TEXT_PLAIN, data |-> EmptyStr]
ErrorExtracting ==
    [error |-> "Error extracting data URI", mime_type |-> TEXT_PLAIN, data |-> EmptyStr]

\* "result = parse_data_uri(uri); result['xpath'] = xpath; return result",
\* and the "except Exception" around it
ExtractResult(parsed, xpath) ==
    IF parsed.kind = "raise" THEN ErrorExtracting
    ELSE [mime_type |-> parsed.val.mime_type, mime |-> parsed.val.mime,
          encoding |-> parsed.val.encoding, charset |-> parsed.val.charset,
          is_base64 |-> parsed.val.is_base64, data |-> parsed.val.data,
          xpath |-> xpath]

\* extract_data_uri of xsl.editor from "for elem in elements" on; strings
\* (the results of an attribute step) have no get method, elements do
ExtractFrom(registry, t, elements, are_elements, attr, xpath) ==
    IF elements = << >> THEN NoElementsFound
    ELSE IF ~are_elements THEN NoDataUriFound
    ELSE IF ScanElements(registry, t, elements, attr \o COMMON_ATTRS) = None
    THEN NoDataUriFound
    ELSE ExtractResult(parse_data_uri(
                           Chars(ScanElements(registry, t, elements, attr \o COMMON_ATTRS))),
                       xpath)

\* extract_data_uri of xsl.editor after the first query returned
ExtractSplit(lxml, be, registry, t, xpath, found) ==
    IF found.kind = "raise" THEN ErrorExtracting
    ELSE IF found.val = << >> THEN NoElementsXPATH
    ELSE IF xpath.kind = "attr" /\ xpath.attr.raw \in {"xlink:href", "href"}
    THEN IF query(lxml, be, t, xpath.element).kind = "raise" THEN ErrorExtracting
         ELSE ExtractFrom(registry, t, query(lxml, be, t, xpath.element).val, TRUE,
                          << xpath.attr >>, xpath)
    ELSE ExtractFrom(registry, t, found.val, xpath.kind # "attr", << >>, xpath)

\* FileEditor.extract_data_uri of xsl.editor
xsl_extract_data_uri(lxml, be, registry, t, xpath) ==
    Return(ExtractSplit(lxml, be, registry, t, xpath,
                        query_ns(lxml, be, registry, t, xpath)))

\* the position of the first c in s, 0 when s holds none
IndexOf(s, c) ==
    IF \E k \in 1..Len(s) : s[k] = c
    THEN CHOOSE k \in 1..Len(s) : s[k] = c /\ \A j \in 1..(k - 1) : s[j] # c
    ELSE 0

\* s.split(c)[0] and s.split(c, 1)[1]
Before(s, c) == IF IndexOf(s, c) = 0 THEN s ELSE SubSeq(s, 1, IndexOf(s, c) - 1)
After(s, c) == SubSeq(s, IndexOf(s, c) + 1, Len(s))

\* binascii.a2b_base64(s) in its default mode: characters outside the
\* alphabet are skipped, the first complete padding ends the decoding
RECURSIVE a2b_base64_lenient(_, _, _)
a2b_base64_lenient(s, i, st) ==
    IF i > Len(s)
    THEN IF st.quad_pos # 0 THEN Raise("binascii.Error") ELSE Return(st.bin_data)
    ELSE IF s[i] = PAD
    THEN IF st.quad_pos >= 2 /\ st.quad_pos + st.pads + 1 >= 4
         THEN Return(st.bin_data)
         ELSE a2b_base64_lenient(s, i + 1,
                                 [st EXCEPT !.pads = IF st.quad_pos >= 2 THEN @ + 1 ELSE @])
    ELSE IF B64Value(s[i]) >= 64 THEN a2b_base64_lenient(s, i + 1, st)
    ELSE a2b_base64_lenient(s, i + 1,
            CASE st.quad_pos = 0 ->
                   [st EXCEPT !.quad_pos = 1, !.leftchar = B64Value(s[i]), !.pads = 0]
              [] st.quad_pos = 1 ->
                   [st EXCEPT !.quad_pos = 2, !.leftchar = B64Value(s[i]) % 16, !.pads = 0,
                              !.bin_data = Append(@, (st.leftchar * 4) + (B64Value(s[i]) \div 16))]
              [] st.quad_pos = 2 ->
                   [st EXCEPT !.quad_pos = 3, !.leftchar = B64Value(s[i]) % 4, !.pads = 0,
                              !.bin_data = Append(@, (st.leftchar * 16) + (B64Value(s[i]) \div 4))]
              [] OTHER ->
                   [st EXCEPT !.quad_pos = 0, !.leftchar = 0, !.pads = 0,
                              !.bin_data = Append(@, (st.leftchar * 64) + B64Value(s[i]))])

\* base64.b64decode(s) of a str
b64decode_lenient(s) ==
    IF \E k \in 1..Len(s) : s[k] >= 128 THEN Raise("ValueError")
    ELSE a2b_base64_lenient(s, 1, [quad_pos |-> 0, leftchar |-> 0, pads |-> 0,
                                   bin_data |-> << >>])

\* the attributes extract_data_uri of filex.cli tries, by the name as written
FILEX_ATTRS == << HREF, XLINK_HREF, SRC, DATA >>

\* "for attr in [...]": the first value that starts with "data:", or None
RECURSIVE FirstDataPrefixed(_, _)
FirstDataPrefixed(element, names) ==
    IF names = << >> THEN None
    ELSE IF MapGet(element.attrs, Plain(Head(names).raw)) \notin {None, ""}
            /\ HasAt_case_sensitive(Chars(MapGet(element.attrs, Plain(Head(names).raw))),
                                    1, DATA_SCHEME)
    THEN MapGet(element.attrs, Plain(Head(names).raw))
    ELSE FirstDataPrefixed(element, Tail(names))

\* extract_data_uri of filex.cli from "try:" on
FilexDecode(data_uri) ==
    IF IndexOf(data_uri, Ord(",")) = 0 \/ b64decode_lenient(After(data_uri, Ord(","))).kind = "raise"
    THEN [error |-> "Failed to decode Data URI"]
    ELSE [mime_type |-> Before(Before(After(Before(data_uri, Ord(",")), COLON), COLON),
                               SEMICOLON),
          size |-> Len(b64decode_lenient(After(data_uri, Ord(","))).val),
          base64_data |-> After(data_uri, Ord(",")),
          decoded_size |-> Len(b64decode_lenient(After(data_uri, Ord(","))).val)]

\* extract_data_uri of filex.cli after find_by_xpath returned
FilexExtractFrom(t, elements, are_elements) ==
    IF elements = << >> THEN [error |-> "No elements found with given XPath"]
    ELSE IF ~are_elements \/ FirstDataPrefixed(t[elements[1]], FILEX_ATTRS) = None
    THEN [error |-> "No Data URI found in element"]
    ELSE FilexDecode(Chars(FirstDataPrefixed(t[elements[1]], FILEX_ATTRS)))

\* FileEditor.extract_data_uri of filex.cli
filex_extract_data_uri(lxml, be, t, xpath) ==
    IF find_by_xpath_ns(lxml, be, t, xpath).kind = "raise"
    THEN find_by_xpath_ns(lxml, be, t, xpath)
    ELSE Return(FilexExtractFrom(t, find_by_xpath_ns(lxml, be, t, xpath).val,
                                 xpath.kind # "attr"))

extract_data_uri ==
    /\ phase = "loaded"
    /\ \E xpath \in ExtractPaths :
        /\ ret' = IF editor = "xsl"
                  THEN xsl_extract_data_uri(LXML_AVAILABLE, backend, ns, tree, xpath)
                  ELSE filex_extract_data_uri(LXML_AVAILABLE, backend, tree, xpath)
        /\ call' = [op |-> "extract_data_uri", xpath |-> xpath]
    /\ pre' = tree
    /\ phase' = "done"
    /\ UNCHANGED <<LXML_AVAILABLE, editor, tree, backend, ns, attempts>>
    /\ UNCHANGED <<file_path, original_content, file_type, disk, editors, requests>>

\* the attribute names handed to get_element_attribute
GetAttrNames == AttrNames \cup {HREF}

get_element_attribute ==
    /\ phase = "loaded"
    /\ \E xpath \in Paths, attr_name \in GetAttrNames :
        /\ ret' = IF editor = "xsl"
                  THEN xsl_get_element_attribute(LXML_AVAILABLE, backend, ns, tree,
                                                 xpath, attr_name)
                  ELSE filex_get_element_attribute(LXML_AVAILABLE, backend, tree,
                                                   xpath, attr_name)
        /\ call' = [op |-> "get_element_attribute", xpath |-> xpath, attr_name |-> attr_name]
    /\ pre' = tree
    /\ phase' = "done"
    /\ UNCHANGED <<LXML_AVAILABLE, editor, tree, backend, ns, attempts>>
    /\ UNCHANGED <<file_path, original_content, file_type, disk, editors, requests>>

get_element_text ==
    /\ phase = "loaded"
    /\ \E xpath \in Paths :
        /\ ret' = IF editor = "xsl"
                  THEN xsl_get_element_text(LXML_AVAILABLE, backend, tree, xpath)
                  ELSE filex_get_element_text(LXML_AVAILABLE, backend, tree, xpath)
        /\ call' = [op |-> "get_element_text", xpath |-> xpath]
    /\ pre' = tree
    /\ phase' = "done"
    /\ UNCHANGED <<LXML_AVAILABLE, editor, tree, backend, ns, attempts>>
    /\ UNCHANGED <<file_path, original_content, file_type, disk, editors, requests>>

\* FileEditor.query of xsl.editor, FileEditor.find_by_xpath of filex.cli
find_elements ==
    /\ phase = "loaded"
    /\ \E xpath \in QueryPaths :
        /\ ret' = IF editor = "xsl" THEN query(LXML_AVAILABLE, backend, tree, xpath)
                  ELSE find_by_xpath(LXML_AVAILABLE, backend, tree, xpath)
        /\ call' = [op |-> "query", xpath |-> xpath]
    /\ pre' = tree
    /\ phase' = "done"
    /\ UNCHANGED <<LXML_AVAILABLE, editor, tree, backend, ns, attempts>>
    /\ UNCHANGED <<file_path, original_content, file_type, disk, editors, requests>>

-----------------------------------------------------------------------------
(* Writing the document back: save and backup *)

\* the namespace URI inside a tag "{uri}local", "" for a plain tag
TagUri(tag) == IF tag \in {SVG_A, SVG_SVG} THEN SVG_URI ELSE ""

\* the namespace URIs an element uses, its tag's before its attributes'
UrisOf(node) ==
    LET a == { k[1] : k \in DOMAIN node.attrs } \ {"", TagUri(node.tag)}
    IN  (IF TagUri(node.tag) = "" THEN << >> ELSE << TagUri(node.tag) >>)
        \o (IF a = {} THEN << >> ELSE << CHOOSE u \in a : TRUE >>)

\* the distinct entries of a sequence, each at its first position
RECURSIVE Distinct(_)
Distinct(seq) ==
    IF seq = << >> THEN << >>
    ELSE LET front == Distinct(SubSeq(seq, 1, Len(seq) - 1))
         IN  IF \E k \in 1..Len(front) : front[k] = seq[Len(seq)] THEN front
             ELSE Append(front, seq[Len(seq)])

RECURSIVE UsedUris(_)
UsedUris(t) ==
    IF t = << >> THEN << >>
    ELSE UsedUris(SubSeq(t, 1, Len(t) - 1)) \o UrisOf(t[Len(t)])

\* the prefixes ElementTree invents on writing: "ns%d" % len(namespaces), in
\* the order it meets the URIs
ET_PREFIXES == << "ns0", "ns1", "ns2" >>

ET_namespaces(t) ==
    LET uris == Distinct(UsedUris(t))
    IN  [p \in { ET_PREFIXES[k] : k \in 1..Len(uris) } |->
            uris[CHOOSE k \in 1..Len(uris) : ET_PREFIXES[k] = p]]

\* libxml2 writing element text: a carriage return goes out as &#13;, and an
\* empty text node as no characters
lxml_text(text) == IF text = CR_TEXT THEN CR_REFERENCE ELSE text

\* pretty_print indents the children of an element unless the element or one
\* of its ancestors has a text node (text "" is an empty text node)
Indented(t, i) ==
    /\ \E j \in 1..Len(t) : t[j].parent = i
    /\ \A j \in AncSelf(t, i) : t[j].text = None

\* the element markup lxml writes
lxml_markup(t, pretty_print) ==
    [i \in 1..Len(t) |->
        [t[i] EXCEPT !.text = IF pretty_print /\ Indented(t, i) THEN INDENT
                              ELSE lxml_text(@)]]

\* ElementTree writing element text: "&", "<" and ">" are escaped and nothing
\* else is, a carriage return goes out as it is; empty text writes "<a />"
ET_text(text) == IF text = "" THEN None ELSE text

\* the element markup ElementTree writes
ET_markup(t) == [i \in 1..Len(t) |-> [t[i] EXCEPT !.text = ET_text(@)]]

\* etree.ElementTree(tree).write(path, encoding='utf-8', xml_declaration=True,
\* pretty_print=True): the declaration, the document type the parser kept,
\* the root with its prefix declarations
lxml_write(t, original) ==
    Text(1, original.doctype, "xml", "wellformed", lxml_markup(t, TRUE), original.nsmap)

\* ET.ElementTree(tree).write(path, encoding='utf-8', xml_declaration=True)
ET_write(t) == Text(1, None, "xml", "wellformed", ET_markup(t), ET_namespaces(t))

Saved(files, r) == [disk |-> files, ret |-> r]

\* FileEditor.save of xsl.editor; etree.ElementTree refuses an element that
\* ElementTree built (TypeError), which save turns into IOError
xsl_save(lxml, be, t, original, files, path, output_path, create_backup) ==
    LET out == IF output_path = NoPath THEN path ELSE output_path
        kept == IF create_backup /\ out \in DOMAIN files
                THEN MapSet(files, WithSuffix(out, ".bak"), files[out])
                ELSE files
    IN  IF lxml
        THEN IF be # "lxml" THEN Saved(kept, Raise("IOError"))
             ELSE Saved(MapSet(kept, out, lxml_write(t, original)), Return(out))
        ELSE Saved(MapSet(kept, out, ET_write(t)), Return(out))

\* etree.tostring(tree, encoding='unicode', pretty_print=True) of an element:
\* neither declaration nor document type
lxml_tostring(t, method, original) ==
    Text(0, None, method, "wellformed", lxml_markup(t, TRUE), original.nsmap)

\* ET.tostring(tree, encoding='unicode')
ET_tostring(t) == Text(0, None, "xml", "wellformed", ET_markup(t), ET_namespaces(t))

\* "if not content.startswith('<?xml'): content = '<?xml ...?>\n' + content"
WithDeclaration(content) ==
    IF content.prolog = 0 THEN [content EXCEPT !.prolog = 1] ELSE content

\* FileEditor.save of filex.cli: True, or False after any exception
filex_save(lxml, be, t, ftype, original, files, path, output_path) ==
    LET save_path == IF output_path = NoPath THEN path ELSE output_path
    IN  IF lxml
        THEN IF be # "lxml" THEN Saved(files, Return(FALSE))
             ELSE IF ftype = "html"
             THEN Saved(MapSet(files, save_path, lxml_tostring(t, "html", original)),
                        Return(TRUE))
             ELSE Saved(MapSet(files, save_path,
                               WithDeclaration(lxml_tostring(t, "xml", original))),
                        Return(TRUE))
        ELSE Saved(MapSet(files, save_path, ET_tostring(t)), Return(TRUE))

\* FileEditor.backup of xsl.editor: shutil.copy2(file_path, file_path + ".bak")
xsl_backup(files, path) ==
    IF path \in DOMAIN files
    THEN Saved(MapSet(files, WithSuffix(path, ".bak"), files[path]),
               Return(WithSuffix(path, ".bak")))
    ELSE Saved(files, Raise("IOError"))

\* FileEditor.backup of filex.cli: original_content written to
\* file_path + ".backup"
filex_backup(files, path, original) ==
    Saved(MapSet(files, WithSuffix(path, ".backup"), original),
          Return(WithSuffix(path, ".backup")))

\* the paths handed to save
OutputPaths == {NoPath, OUT_XML}

\* FileEditor(path) on the files as they are: the editor built, or ok = FALSE
\* when the constructor raised
FileEditor(cls, lxml, files, path) ==
    LET tries == ParseAttempts(cls, lxml, files[path])
        final == tries[Len(tries)]
    IN  IF final.out.kind = "return"
        THEN [ok |-> TRUE, file_path |-> path, tree |-> final.out.val,
              backend |-> final.parser, original_content |-> files[path],
              ns |-> IF cls = "xsl" /\ final.parser = "lxml"
                     THEN UpdateNs(DefaultNs, files[path].nsmap) ELSE DefaultNs]
        ELSE [ok |-> FALSE]

save ==
    /\ phase = "loaded"
    /\ \E output_path \in OutputPaths,
          create_backup \in (IF editor = "xsl" THEN BOOLEAN ELSE {FALSE}) :
        /\ LET out == IF editor = "xsl"
                      THEN xsl_save(LXML_AVAILABLE, backend, tree, original_content, disk,
                                    file_path, output_path, create_backup)
                      ELSE filex_save(LXML_AVAILABLE, backend, tree, file_type,
                                      original_content, disk, file_path, output_path)
           IN  /\ disk' = out.disk
               /\ ret' = out.ret
        /\ call' = [op |-> "save", output_path |-> output_path,
                    create_backup |-> create_backup]
    /\ pre' = tree
    /\ phase' = "saved"
    /\ UNCHANGED <<LXML_AVAILABLE, editor, tree, backend, ns, attempts>>
    /\ UNCHANGED <<file_path, original_content, file_type, editors, requests>>

\* FileEditor.set_value of xsl.editor: the values an attribute step yields
\* are strings, which have no attribute text ("hasattr(elem, 'text')"), and the
\* loop passes them over
xsl_set_value(lxml, be, registry, t, xpath, value) ==
    LET elements == query_ns(lxml, be, registry, t, xpath)
    IN  IF elements.kind = "raise" THEN Outcome(t, elements)
        ELSE IF elements.val = << >> THEN Outcome(t, Return(FALSE))
        ELSE IF xpath.kind = "attr" THEN Outcome(t, Return(TRUE))
        ELSE Outcome(SetTextAll(t, elements.val, value), Return(TRUE))

set_value ==
    /\ phase = "loaded"
    /\ editor = "xsl"
    /\ \E xpath \in ExtractPaths, value \in TextValues :
        /\ LET out == xsl_set_value(LXML_AVAILABLE, backend, ns, tree, xpath, value)
           IN  /\ tree' = out.tree
               /\ ret' = out.ret
        /\ call' = [op |-> "set_value", xpath |-> xpath, text |-> value]
    /\ pre' = tree
    /\ phase' = "done"
    /\ UNCHANGED <<LXML_AVAILABLE, editor, backend, ns, attempts>>
    /\ UNCHANGED <<file_path, original_content, file_type, disk, editors, requests>>

\* the file_type property of xsl.editor, the file_type attribute of filex.cli
detect_file_type ==
    /\ phase = "loaded"
    /\ ret' = IF editor = "xsl" THEN Return(xsl_detect_file_type(tree))
              ELSE Return(file_type)
    /\ call' = [op |-> "file_type"]
    /\ pre' = tree
    /\ phase' = "done"
    /\ UNCHANGED <<LXML_AVAILABLE, editor, tree, backend, ns, attempts>>
    /\ UNCHANGED <<file_path, original_content, file_type, disk, editors, requests>>

\* backup() on an editor, fresh from load or after a save
backup ==
    /\ phase \in {"loaded", "saved"}
    /\ LET out == IF editor = "xsl" THEN xsl_backup(disk, file_path)
                  ELSE filex_backup(disk, file_path, original_content)
       IN  /\ disk' = out.disk
           /\ ret' = out.ret
    /\ call' = [op |-> "backup", after |-> call.op]
    /\ pre' = tree
    /\ phase' = "done"
    /\ UNCHANGED <<LXML_AVAILABLE, editor, tree, backend, ns, attempts>>
    /\ UNCHANGED <<file_path, original_content, file_type, editors, requests>>

-----------------------------------------------------------------------------
(* The command line of xsl: main and CLI.run *)

\* "def run(self)": the positional parameters of CLI.run
RUN_PARAMETERS == 1

\* the command lines of the process (sys.argv[1:]) and the lists handed to main
ArgLists == { << >>, << "load", "doc.xml" >>, << "info" >> }

\* parser.parse_args(): the command of the process's command line
Command(argv) == IF argv = << >> THEN None ELSE argv[1]

\* CLI.run called on a new CLI with the positional arguments given: without
\* command it prints the help and returns; "info" ends in
\* _require_loaded_file and "load" in the missing FileEditor.get_info, both
\* answered with sys.exit(1)
CLI_run(arguments, argv) ==
    IF Len(arguments) + 1 > RUN_PARAMETERS THEN Raise("TypeError")
    ELSE IF Command(argv) = None THEN Return(None)
    ELSE Raise("SystemExit")

\* main(args): 0 after cli.run(args), 1 after an Exception; SystemExit is
\* none and leaves main
xsl_main(args, argv) ==
    LET run == CLI_run(<< args >>, argv)
    IN  IF run.kind = "return" THEN Return(0)
        ELSE IF run.exc = "SystemExit" THEN run
        ELSE Return(1)

main ==
    /\ phase = "new"
    /\ editor = "xsl"
    /\ \E args \in ArgLists, argv \in ArgLists :
        /\ ret' = xsl_main(args, argv)
        /\ call' = [op |-> "main", args |-> args, argv |-> argv]
    /\ pre' = tree
    /\ phase' = "done"
    /\ UNCHANGED <<LXML_AVAILABLE, editor, tree, backend, ns, attempts>>
    /\ UNCHANGED <<file_path, original_content, file_type, disk, editors, requests>>

-----------------------------------------------------------------------------
(* The editors as a state machine *)

Init ==
    /\ LXML_AVAILABLE \in BOOLEAN
    /\ editor \in {"xsl", "filex"}
    /\ phase = "new"
    /\ tree = NoTree
    /\ backend = None
    /\ ns = DefaultNs
    /\ attempts = << >>
    /\ pre = NoTree
    /\ call = [op |-> "none"]
    /\ ret = Return(None)
    /\ \E f \in SourceFiles(editor) :
        /\ file_path = f.path
        /\ disk = [p \in {f.path} |-> f.text]
    /\ original_content = None
    /\ file_type = None
    /\ editors = << >>
    /\ requests = << >>

Next ==
    \/ Load
    \/ set_element_text
    \/ set_element_attribute
    \/ add_element
    \/ remove_element
    \/ get_element_attribute
    \/ get_element_text
    \/ find_elements
    \/ extract_data_uri
    \/ save
    \/ backup
    \/ detect_file_type
    \/ main
    \/ set_value

Spec == Init /\ [][Next]_vars

-----------------------------------------------------------------------------
(* The HTTP layer of filex: FileEditorServer and its registry of editors *)

\* the requests one run of the server is followed through
MaxRequests == 3

MISSING_XML == << "missing", ".xml" >>

\* the files the server starts on: <b><a/><a/></b> and an SVG file
ServerFiles ==
    [p \in {DOC_XML, PIC_SVG} |->
        IF p = DOC_XML
        THEN Content("wellformed",
                     << Node("b", None, EmptyMap, 0), Node("a", None, EmptyMap, 1),
                        Node("a", None, EmptyMap, 1) >>, EmptyMap)
        ELSE Text(1, None, "xml", "wellformed", SVG_DOC, EmptyMap)]

ServerPaths == {DOC_XML, PIC_SVG, OUT_XML, MISSING_XML}

\* self.editors[file_path] = editor: a dict keeps the position of a key it
\* already holds and puts a new key last
Register(registry, e) ==
    IF \E i \in 1..Len(registry) : registry[i].file_path = e.file_path
    THEN [i \in 1..Len(registry) |->
            IF registry[i].file_path = e.file_path THEN e ELSE registry[i]]
    ELSE Append(registry, e)

\* list(self.editors.values())[0]
FirstEditor(registry) == registry[1]

\* one request and its answer: the route, the file it named or worked on,
\* and 'success' of the response
Request(api, path, success) == [api |-> api, file_path |-> path, success |-> success]

ServerFrame ==
    UNCHANGED <<LXML_AVAILABLE, editor, phase, tree, backend, ns, attempts, pre, call, ret,
                file_path, original_content, file_type>>

\* POST /api/load
server_load_file ==
    /\ phase = "server"
    /\ Len(requests) < MaxRequests
    /\ \E path \in ServerPaths :
        LET e == IF path \in DOMAIN disk
                 THEN FileEditor(editor, LXML_AVAILABLE, disk, path)
                 ELSE [ok |-> FALSE]
        IN  /\ editors' = IF e.ok THEN Register(editors, e) ELSE editors
            /\ requests' = Append(requests, Request("load", path, e.ok))
    /\ UNCHANGED disk
    /\ ServerFrame

\* POST /api/query with type xpath: editor.list_elements(query)
server_query_elements ==
    /\ phase = "server"
    /\ Len(requests) < MaxRequests
    /\ \E xpath \in {Path(TRUE, "a", None), Malformed} :
        requests' = Append(requests,
            IF editors = << >> THEN Request("query", NoPath, FALSE)
            ELSE LET e == FirstEditor(editors)
                 IN  Request("query", e.file_path,
                             find_by_xpath(LXML_AVAILABLE, e.backend, e.tree, xpath).kind
                                = "return"))
    /\ UNCHANGED <<disk, editors>>
    /\ ServerFrame

\* POST /api/update with type text: editor.set_element_text(xpath, value)
server_update_element ==
    /\ phase = "server"
    /\ Len(requests) < MaxRequests
    /\ \E xpath \in {Path(TRUE, "a", None), Path(TRUE, "b", None)}, value \in {"v"} :
        IF editors = << >>
        THEN /\ requests' = Append(requests, Request("update", NoPath, FALSE))
             /\ UNCHANGED editors
        ELSE LET e == FirstEditor(editors)
                 out == filex_set_element_text(LXML_AVAILABLE, e.backend, e.tree, xpath, value)
             IN  /\ editors' = [editors EXCEPT ![1].tree = out.tree]
                 /\ requests' = Append(requests,
                        Request("update", e.file_path, out.ret = Return(TRUE)))
    /\ UNCHANGED disk
    /\ ServerFrame

\* POST /api/save: editor.save(output_path)
server_save_file ==
    /\ phase = "server"
    /\ Len(requests) < MaxRequests
    /\ \E output_path \in OutputPaths :
        IF editors = << >>
        THEN /\ requests' = Append(requests, Request("save", NoPath, FALSE))
             /\ UNCHANGED disk
        ELSE LET e == FirstEditor(editors)
                 out == filex_save(LXML_AVAILABLE, e.backend, e.tree,
                                   FilexFileType(e.file_path, e.original_content),
                                   e.original_content, disk, e.file_path, output_path)
             IN  /\ disk' = out.disk
                 /\ requests' = Append(requests,
                        Request("save", e.file_path, out.ret = Return(TRUE)))
    /\ UNCHANGED editors
    /\ ServerFrame

\* POST /api/extract_data_uri: the response is the result or {'error': ...}
server_extract_data_uri ==
    /\ phase = "server"
    /\ Len(requests) < MaxRequests
    /\ \E xpath \in {Path(TRUE, "a", None)} :
        requests' = Append(requests,
            IF editors = << >> THEN Request("extract_data_uri", NoPath, FALSE)
            ELSE LET e == FirstEditor(editors)
                 IN  Request("extract_data_uri", e.file_path,
                             filex_extract_data_uri(LXML_AVAILABLE, e.backend, e.tree,
                                                    xpath).kind = "return"))
    /\ UNCHANGED <<disk, editors>>
    /\ ServerFrame

InitServer ==
    /\ LXML_AVAILABLE \in BOOLEAN
    /\ editor = "filex"
    /\ phase = "server"
    /\ tree = NoTree
    /\ backend = None
    /\ ns = DefaultNs
    /\ attempts = << >>
    /\ pre = NoTree
    /\ call = [op |-> "none"]
    /\ ret = Return(None)
    /\ file_path = NoPath
    /\ original_content = None
    /\ file_type = None
    /\ disk = ServerFiles
    /\ editors = << >>
    /\ requests = << >>

NextServer ==
    \/ server_load_file
    \/ server_query_elements
    \/ server_update_element
    \/ server_save_file
    \/ server_extract_data_uri

SpecServer == InitServer /\ [][NextServer]_vars

-----------------------------------------------------------------------------
(* What the claims read off a state *)

\* the path evaluation the constructed editor class performs
Evaluate(t, xpath) ==
    IF editor = "xsl" THEN query(LXML_AVAILABLE, backend, t, xpath)
    ELSE find_by_xpath(LXML_AVAILABLE, backend, t, xpath)

InSeq(x, seq) == \E k \in 1..Len(seq) : seq[k] = x

\* the nodes of t other than those listed are the same in before and after
SameExcept(before, after, nodes) ==
    /\ Len(after) = Len(before)
    /\ \A i \in 1..Len(before) : ~InSeq(i, nodes) => after[i] = before[i]

\* only the text of a node differs
SameButText(a, b) == a.tag = b.tag /\ a.attrs = b.attrs /\ a.parent = b.parent

\* only the attributes of a node differ
SameButAttrs(a, b) == a.tag = b.tag /\ a.text = b.text /\ a.parent = b.parent

-----------------------------------------------------------------------------
-----------------------------------------------------------------------------
StoredKey(name) ==
    IF name.prefix = NoPrefix THEN Plain(name.raw) ELSE Key(ns[name.prefix], name.local)

-----------------------------------------------------------------------------
Survivors(before, gone) ==
    SelectSeq(Indices(Len(before)), LAMBDA j : j \notin gone)

-----------------------------------------------------------------------------
\* the text a caller reads from an element: element.text or ""
TextOf(node) == PyOr(node.text, "")

\* C4 (as stated): add_element with k >= 1 matching parents returns True and
\* adds exactly one child, with the given tag, text and attributes, as the last
\* child of the first matching parent; every other element is left as it was.
C4_AddsOneChildWithAttributes ==
    (call.op = "add_element" /\ editor = "filex"
        /\ Evaluate(pre, call.xpath).kind = "return"
        /\ Len(Evaluate(pre, call.xpath).val) >= 1) =>
        LET parent == Evaluate(pre, call.xpath).val[1]
            pos == parent + Cardinality(Subtree(pre, parent))
        IN  /\ ret = Return(TRUE)
            /\ Len(tree) = Len(pre) + 1
            /\ tree[pos].parent = parent
            /\ tree[pos].tag = call.tag_name
            /\ TextOf(tree[pos]) = call.text
            /\ Cardinality(DOMAIN tree[pos].attrs) = Len(call.attributes)
            /\ \A k \in 1..Len(pre) :
                  LET at == IF k < pos THEN k ELSE k + 1
                  IN  /\ tree[at].tag = pre[k].tag
                      /\ tree[at].text = pre[k].text
                      /\ tree[at].attrs = pre[k].attrs

-----------------------------------------------------------------------------
\* what the callers print or send for a structural edit that did not succeed:
\* "Parent element not found" / "Element not found" for a False return, and
\* in xsl/server.py the text of any exception
StructuralError ==
    /\ call.op \in {"add_element", "remove_element"}
    /\ ret = Return(FALSE) \/ ret = Raise("AttributeError")

\* C5 (as stated): add_element and remove_element on a path that matches no
\* element fail and leave the tree unchanged, and they report a structural
\* error only when the path matched nothing.
C5_StructuralErrorOnlyOnNoMatch ==
    call.op \in {"add_element", "remove_element"} =>
        LET before == Evaluate(pre, call.xpath)
        IN  /\ (before.kind = "return" /\ before.val = << >>) =>
                  (StructuralError /\ tree = pre)
            /\ (StructuralError /\ before.kind = "return") => before.val = << >>

-----------------------------------------------------------------------------
\* C6 (as stated): the load tries lxml first, tries ElementTree only after
\* lxml failed on the content and at most once, raises the load error only
\* after both failed, and truncated markup ends in that error with no tree.
C6_FullParserAlwaysFirst ==
    (editor = "xsl" /\ attempts # << >>) =>
        /\ attempts[1].parser = "lxml"
        /\ \A k \in 1..Len(attempts) :
              attempts[k].parser = "et" => (k = 2 /\ ~attempts[1].ok)
        /\ phase = "failed" =>
              (Len(attempts) = 2 /\ \A k \in 1..2 : ~attempts[k].ok)

\* C6 (amended): _parse_content of xsl.editor tries lxml first when lxml is
\* importable and ElementTree only after lxml raised XMLSyntaxError on the same
\* content; when lxml is not importable ElementTree is the only parser it
\* tries.  No parser is tried twice.  ValueError("Cannot parse file: ...") is
\* raised only after ElementTree failed (and lxml before it, when importable),
\* carries ElementTree's diagnostic, and leaves no tree; truncated markup ends
\* in it.
C6_ParserOrder ==
    (editor = "xsl" /\ attempts # << >>) =>
        /\ attempts[1].parser = (IF LXML_AVAILABLE THEN "lxml" ELSE "et")
        /\ Len(attempts) <= (IF LXML_AVAILABLE THEN 2 ELSE 1)
        /\ Len(attempts) = 2 => (attempts[2].parser = "et" /\ ~attempts[1].ok)
        /\ \A k \in 1..Len(attempts) : attempts[k].ok => k = Len(attempts)
        /\ phase = "failed" <=> (\A k \in 1..Len(attempts) : ~attempts[k].ok)
        /\ phase = "failed" =>
              /\ attempts[Len(attempts)].parser = "et"
              /\ LXML_AVAILABLE => Len(attempts) = 2
              /\ tree = NoTree
              /\ ret.kind = "raise"
              /\ ret.exc.type = "ValueError"
              /\ ret.exc.diagnostic = "ParseError"
        /\ (call.op = "load" /\ call.content.kind = "truncated") => phase = "failed"
        /\ (call.op = "load" /\ phase = "loaded") =>
              /\ tree = call.content.doc
              /\ backend = attempts[Len(attempts)].parser

\* truncated markup, lxml importable: lxml failed, then ElementTree failed
C6_Witness ==
    /\ editor = "xsl"
    /\ LXML_AVAILABLE
    /\ call.op = "load"
    /\ call.content.kind = "truncated"
    /\ phase = "failed"
    /\ Len(attempts) = 2
    /\ tree = NoTree

-----------------------------------------------------------------------------
(* The data-URI grammar, stated on the pieces a string was written from *)

\* <type>/<subtype>: letters, "/", then letters, digits or "-", "+", "."
IsMime(m) ==
    \E k \in 2..(Len(m) - 1) :
        /\ m[k] = SLASH
        /\ \A j \in 1..(k - 1) : m[j] \in MimeTypeClass
        /\ \A j \in (k + 1)..Len(m) : m[j] \in MimeSubtypeClass

\* ;charset=<cs>: letters, digits or "-"
IsCharsetParam(p) ==
    /\ Len(p) > Len(CHARSET_EQ)
    /\ SubSeq(p, 1, Len(CHARSET_EQ)) = CHARSET_EQ
    /\ \A j \in (Len(CHARSET_EQ) + 1)..Len(p) : p[j] \in CharsetClass

\* the string starts with "data:", in either case
HasScheme(parts) == [k \in 1..Len(parts.head) |-> Lower(parts.head[k])] = DATA_SCHEME

\* data:[<mime>][;charset=<cs>][;base64],<data>
InGrammar(parts) ==
    /\ HasScheme(parts)
    /\ parts.mime = EmptyStr \/ IsMime(parts.mime)
    /\ parts.charset = EmptyStr \/ IsCharsetParam(parts.charset)
    /\ parts.comma = COMMA
    /\ \A k \in 1..Len(parts.data) : parts.data[k] # NEWLINE

\* base64 text as RFC 4648 frames it: whole groups of four characters of the
\* alphabet, the last group ending in at most two pad characters
WellPadded(data) ==
    /\ Len(data) % 4 = 0
    /\ \A k \in 1..Len(data) :
          \/ B64Value(data[k]) < 64
          \/ /\ data[k] = PAD
             /\ k >= Len(data) - 1
             /\ \A j \in k..Len(data) : data[j] = PAD

\* the charset a string declares, utf-8 when it declares none
DeclaredCharset(parts) ==
    IF parts.charset = EmptyStr THEN UTF_8
    ELSE SubSeq(parts.charset, Len(CHARSET_EQ) + 1, Len(parts.charset))

-----------------------------------------------------------------------------
\* C7 (as stated): for every byte sequence p, mime type m and charset c,
\* parse_data_uri(create_data_uri(p, m, c, True)) returns, and its data is p.
C7_Base64RoundTrip ==
    (call.op = "parse_data_uri" /\ call.made.op = "create_data_uri"
        /\ call.made.base64_encode) =>
        /\ ret.kind = "return"
        /\ ret.val.data = call.made.data

-----------------------------------------------------------------------------
-----------------------------------------------------------------------------
\* C9 (as stated): parse_data_uri raises the malformed-URI error for every
\* string outside the grammar, and the invalid-encoding error whenever the
\* ;base64 marker is present and the data segment is not valid base64; it
\* returns no value in either case.
C9_RejectsInvalid ==
    call.op = "parse_data_uri" =>
        /\ ~InGrammar(call.parts) => ret = Raise(InvalidDataURI)
        /\ (InGrammar(call.parts) /\ call.parts.base64 # EmptyStr
                /\ ~WellPadded(call.parts.data)) => ret = Raise(InvalidBase64)

-----------------------------------------------------------------------------
\* C10 (as stated): parse_data_uri of a data URI without a mime type returns
\* the mime type "text/plain", and of a data URI without a charset returns a
\* charset field equal to exactly "utf-8".
C10_Defaults ==
    (call.op = "parse_data_uri" /\ ret.kind = "return") =>
        /\ call.parts.mime = EmptyStr =>
              (ret.val.mime_type = TEXT_PLAIN /\ ret.val.mime = TEXT_PLAIN)
        /\ call.parts.charset = EmptyStr => ret.val.charset = UTF_8

-----------------------------------------------------------------------------
\* C11 (as stated): when the ;base64 marker is absent, parse_data_uri of a
\* data URI returns as data the literal data segment encoded to bytes under
\* the charset the URI declares, with no percent-decoding, and reports the
\* encoding "utf-8" and not base64.
C11_LiteralUnderDeclaredCharset ==
    (call.op = "parse_data_uri" /\ InGrammar(call.parts)
        /\ call.parts.base64 = EmptyStr) =>
        /\ ret.kind = "return"
        /\ Return(ret.val.data) = encode(call.parts.data, DeclaredCharset(call.parts))
        /\ ret.val.encoding = "utf-8"
        /\ ~ret.val.is_base64

-----------------------------------------------------------------------------
\* C12 (as stated): create_data_uri with base64_encode False is the inverse of
\* parse_data_uri: for every payload p that decodes as text under charset c,
\* parse_data_uri(create_data_uri(p, m, c, False)) returns the data p, the
\* mime type m and the charset c.
C12_TextRoundTrip ==
    (call.op = "parse_data_uri" /\ call.made.op = "create_data_uri"
        /\ ~call.made.base64_encode) =>
        /\ ret.kind = "return"
        /\ ret.val.data = call.made.data
        /\ ret.val.mime_type = call.made.mime
        /\ ret.val.charset = call.made.charset

-----------------------------------------------------------------------------
\* the attribute of an element that a name written in a path selects, with
\* xlink bound to its usual URI
SelectedKey(name) ==
    IF name.prefix = NoPrefix THEN Plain(name.raw) ELSE Key(XLINK_URI, name.local)

\* the path ends in an attribute step, its element part matches, and every
\* matched element holds the value under the selected attribute
SelectsValue(t, xpath, value) ==
    /\ xpath.kind = "attr"
    /\ xpath.element.kind = "path"
    /\ lxml_xpath(t, xpath.element) # << >>
    /\ \A k \in 1..Len(lxml_xpath(t, xpath.element)) :
          MapGet(t[lxml_xpath(t, xpath.element)[k]].attrs, SelectedKey(xpath.attr)) = value

\* C13 (as stated): extract_data_uri on a path that selects an attribute whose
\* value is a base64 data URI returns a dict without the key 'error', whose
\* mime_type is the mime type of the URI, and which carries 'base64_data' and
\* a 'size' greater than 0 (the document loaded by lxml, as in the test).
C13_AttributePathExtracts ==
    (call.op = "extract_data_uri" /\ backend = "lxml"
        /\ SelectsValue(pre, call.xpath, PNG_DATA_URI)) =>
        /\ ret.kind = "return"
        /\ "error" \notin DOMAIN ret.val
        /\ ret.val.mime_type = IMAGE_PNG
        /\ "base64_data" \in DOMAIN ret.val
        /\ "size" \in DOMAIN ret.val
        /\ ret.val.size > 0

-----------------------------------------------------------------------------
\* the document binds xlink to the custom URI: an attribute is stored under it
Redeclared(t) ==
    \E i \in 1..Len(t) : \E key \in DOMAIN t[i].attrs : key[1] = CUSTOM_URI

\* the path matched, and its first match holds xlink:href under the custom URI
FirstHoldsCustom(t, xpath) ==
    /\ Evaluate(t, xpath).kind = "return"
    /\ Evaluate(t, xpath).val # << >>
    /\ Key(CUSTOM_URI, "href") \in DOMAIN t[Evaluate(t, xpath).val[1]].attrs

\* C14 (as stated): the registry of xsl.editor is seeded with svg, xlink, html
\* and xhtml; after loading a document that binds xlink to a custom URI,
\* whichever parser loaded it, the registry binds xlink to that URI and
\* get_element_attribute, set_element_attribute and extract_data_uri resolve
\* xlink:href under it; a seeded prefix the document leaves alone keeps its
\* default.
C14_DocumentNamespaceWins ==
    editor = "xsl" =>
        /\ DOMAIN DefaultNs \subseteq DOMAIN ns
        /\ (call.op = "load" /\ ret.kind = "return") =>
              \A prefix \in DOMAIN DefaultNs :
                  ns[prefix] = IF prefix \in DOMAIN call.content.nsmap
                               THEN call.content.nsmap[prefix]
                               ELSE DefaultNs[prefix]
        /\ (call.op = "get_element_attribute" /\ call.attr_name = XLINK_HREF
                /\ FirstHoldsCustom(pre, call.xpath)) =>
              ret = Return(pre[Evaluate(pre, call.xpath).val[1]].attrs[Key(CUSTOM_URI, "href")])
        /\ (call.op = "set_element_attribute" /\ call.attr_name = XLINK_HREF
                /\ Redeclared(pre) /\ ret = Return(TRUE)) =>
              /\ \A i \in 1..Len(tree) : Key(XLINK_URI, "href") \notin DOMAIN tree[i].attrs
              /\ \A k \in 1..Len(Evaluate(pre, call.xpath).val) :
                    MapGet(tree[Evaluate(pre, call.xpath).val[k]].attrs,
                           Key(CUSTOM_URI, "href")) = call.attr_value
        /\ (call.op = "extract_data_uri" /\ call.xpath.kind = "path"
                /\ FirstHoldsCustom(pre, call.xpath)
                /\ pre[Evaluate(pre, call.xpath).val[1]].attrs[Key(CUSTOM_URI, "href")]
                      = PNG_DATA_URI) =>
              /\ ret.kind = "return"
              /\ "error" \notin DOMAIN ret.val
              /\ ret.val.mime_type = IMAGE_PNG

-----------------------------------------------------------------------------
\* C15 (as stated): in xsl.editor, get_element_attribute and
\* set_element_attribute with a prefixed name whose prefix is not in the
\* registry, on a path that matches, fail with an error and leave the tree
\* unchanged; the outcome is not that of an absent attribute or of a path
\* that matched nothing.
C15_UnknownPrefixFails ==
    (editor = "xsl" /\ call.op \in {"get_element_attribute", "set_element_attribute"}
        /\ call.attr_name.prefix # NoPrefix
        /\ call.attr_name.prefix \notin DOMAIN ns
        /\ Evaluate(pre, call.xpath).kind = "return"
        /\ Evaluate(pre, call.xpath).val # << >>) =>
        /\ ret.kind = "raise"
        /\ tree = pre

-----------------------------------------------------------------------------
\* a path made of tag steps alone, without a predicate
IsTagPath(xpath) == xpath.kind = "path" /\ xpath.id = None

\* C16 (as stated): query of xsl.editor on a hierarchical tag path returns,
\* whichever backend holds the tree, the elements the full backend returns
\* for that path, in document order; when nothing matches it returns the
\* empty sequence and raises nothing.
C16_SameOrderAnyBackend ==
    (editor = "xsl" /\ call.op = "query" /\ IsTagPath(call.xpath)) =>
        /\ ret.kind = "return"
        /\ ret.val = lxml_xpath(pre, call.xpath)
        /\ \A j, k \in 1..Len(ret.val) : j < k => ret.val[j] < ret.val[k]

-----------------------------------------------------------------------------
\* C17 (as stated): when the tree is held by the minimal backend
\* (ElementTree), query and find_by_xpath on a path either fail with an error
\* or return what the full backend returns for it; they never return an
\* empty or shorter result because the backend cannot evaluate the path.
C17_MinimalBackendFailsLoudly ==
    (call.op = "query" /\ backend = "et" /\ call.xpath.kind = "path") =>
        \/ ret.kind = "raise"
        \/ ret.val = lxml_xpath(pre, call.xpath)

-----------------------------------------------------------------------------
\* the last call was an operation that evaluates its path (add_element and
\* remove_element do not exist in xsl.editor and evaluate nothing there)
EvaluatesPath ==
    /\ call.op \in {"query", "set_element_text", "set_element_attribute",
                    "get_element_attribute", "extract_data_uri", "add_element",
                    "remove_element"}
    /\ editor = "xsl" => call.op \notin {"add_element", "remove_element"}

\* C18 (as stated): every operation that evaluates a path raises ValueError on
\* a malformed path expression, returns no result, and leaves the tree
\* unchanged.
C18_MalformedPathRaises ==
    (EvaluatesPath /\ call.xpath.kind = "malformed") =>
        /\ ret = Raise("ValueError")
        /\ tree = pre

-----------------------------------------------------------------------------
\* the attribute values that are data URIs
DataUriValues == { value \in UriValues : is_data_uri(Chars(value)) }

\* C19 (as stated): extract_data_uri of xsl.editor (the document loaded by
\* lxml) on a path ending in /@name, for any attribute name, whose element
\* part matches elements holding a data URI under that attribute, returns the
\* decoding of exactly that value.
C19_AnyAttributeStepSplit ==
    (call.op = "extract_data_uri" /\ editor = "xsl" /\ backend = "lxml") =>
        \A value \in DataUriValues :
            SelectsValue(pre, call.xpath, value) =>
                ret = Return(ExtractResult(parse_data_uri(Chars(value)), call.xpath))

-----------------------------------------------------------------------------
\* the values an element holds under the attribute a written name denotes: a
\* plain name the attribute of that name, a prefixed name the attribute of
\* its local name in a namespace
NamedValues(element, name) ==
    { element.attrs[key] :
        key \in { k \in DOMAIN element.attrs :
                    /\ k[2] = name.local
                    /\ (k[1] = "") <=> (name.prefix = NoPrefix) } }

\* the path ends in an attribute step and no element its element part
\* matches holds a data URI under that attribute
NamesNoDataUri(t, xpath) ==
    /\ xpath.kind = "attr"
    /\ xpath.element.kind = "path"
    /\ \A k \in 1..Len(lxml_xpath(t, xpath.element)) :
          \A value \in NamedValues(t[lxml_xpath(t, xpath.element)[k]], xpath.attr) :
              ~IsDataUriValue(value)

\* C20 (as stated): when the attribute an extraction request names holds no
\* data URI, extract_data_uri fails (raises, or returns a dict with 'error');
\* it never returns data taken from another attribute or element.
C20_NoGuessing ==
    (call.op = "extract_data_uri" /\ NamesNoDataUri(pre, call.xpath)) =>
        \/ ret.kind = "raise"
        \/ "error" \in DOMAIN ret.val

-----------------------------------------------------------------------------
\* C21 (as stated): get_element_text and get_element_attribute on a path that
\* matches no element report a not-found failure, never a value a matched
\* element without text or without the attribute would also give.
C21_NoMatchIsNotFound ==
    (call.op \in {"get_element_text", "get_element_attribute"}
        /\ Evaluate(pre, call.xpath) = Return(<< >>)) =>
        ret.kind = "raise"

-----------------------------------------------------------------------------
\* C22 (as stated): backup writes to <path>.bak (filex.cli: <path>.backup) a
\* verbatim copy of the text that was loaded: whatever was saved before, also
\* over the source file, the file backup() creates holds the editor's
\* original_content.
C22_BackupHoldsOriginal ==
    (call.op = "backup" /\ ret.kind = "return") =>
        /\ ret.val = WithSuffix(file_path, IF editor = "xsl" THEN ".bak" ELSE ".backup")
        /\ ret.val \in DOMAIN disk
        /\ disk[ret.val] = original_content

-----------------------------------------------------------------------------
\* what save(out) by the constructed editor does to the files as they are
SaveAs(out) ==
    IF editor = "xsl"
    THEN xsl_save(LXML_AVAILABLE, backend, tree, original_content, disk, file_path, out, FALSE)
    ELSE filex_save(LXML_AVAILABLE, backend, tree, file_type, original_content, disk,
                    file_path, out)

\* what save(out) returns when it has written the file: the path (xsl.editor)
\* or True (filex.cli)
SaveDone(out) == IF editor = "xsl" THEN Return(out) ELSE Return(TRUE)

\* get_element_text(xpath) of an editor e of the constructed class
TextRead(e, xpath) ==
    IF editor = "xsl" THEN xsl_get_element_text(LXML_AVAILABLE, e.backend, e.tree, xpath)
    ELSE filex_get_element_text(LXML_AVAILABLE, e.backend, e.tree, xpath)

\* C23 (as stated): after set_element_text(path, v) succeeded and save(out)
\* returned, a new editor loaded from out gives v for get_element_text(path).
C23_EditSurvivesSaveAndReload ==
    (call.op = "set_element_text" /\ ret = Return(TRUE)
        /\ SaveAs(OUT_XML).ret = SaveDone(OUT_XML)) =>
        LET reloaded == FileEditor(editor, LXML_AVAILABLE, SaveAs(OUT_XML).disk, OUT_XML)
        IN  /\ reloaded.ok
            /\ TextRead(reloaded, call.xpath) = Return(call.text)

\* the format of a text as the specification classifies it: an svg root
\* element, an HTML document type or html root element, XML otherwise
FormatKind(content) ==
    IF WrittenName(content.doc[1].tag) = "svg" THEN "svg"
    ELSE IF content.doctype = "html" \/ content.doc[1].tag = "html" THEN "html"
    ELSE "xml"

\* the text a successful save has written
Written == disk[IF call.output_path = NoPath THEN file_path ELSE call.output_path]

SaveSucceeded ==
    /\ phase = "saved"
    /\ call.op = "save"
    /\ ret = IF editor = "xsl"
             THEN Return(IF call.output_path = NoPath THEN file_path ELSE call.output_path)
             ELSE Return(TRUE)

\* C24: a successful save of an XML or SVG document writes a text with exactly
\* one XML declaration, and a successful save of an HTML document writes HTML
\* syntax without XML declaration.
C24_SerializationFollowsFormat ==
    SaveSucceeded =>
        IF FormatKind(original_content) = "html"
        THEN Written.method = "html" /\ Written.prolog = 0
        ELSE Written.method = "xml" /\ Written.prolog = 1

\* the file type an editor reports now, and the one its file had when loaded
CurrentType == IF editor = "xsl" THEN xsl_detect_file_type(tree) ELSE file_type

TypeAtLoad ==
    IF editor = "xsl"
    THEN xsl_detect_file_type(FileEditor(editor, LXML_AVAILABLE,
                                         [p \in {file_path} |-> original_content],
                                         file_path).tree)
    ELSE FilexFileType(file_path, original_content)

FormatKinds == {"svg", "html", "xml"}

\* C25: from a successful load on, through every query, mutation and save,
\* the file type of the editor is one of svg, html and xml and is the one the
\* file had when it was loaded.
C25_FormatKindFixed ==
    phase \in {"loaded", "saved", "done"} =>
        /\ CurrentType \in FormatKinds
        /\ CurrentType = TypeAtLoad

\* C26: a loaded document whose root element is svg is typed svg, one with an
\* HTML document type or an html root element is typed html, and every other
\* document is typed xml.
C26_Classification ==
    phase = "loaded" => CurrentType = FormatKind(original_content)

\* the command a call of main asks for runs without raising
CommandRuns == Command(call.argv) = None

\* C27: main returns 0 when the requested command runs without raising, and
\* a code other than 0 when it raises.
C27_ExitCode ==
    call.op = "main" =>
        IF CommandRuns THEN ret = Return(0)
        ELSE ret.kind = "raise" \/ ret.val # 0

\* get_element_text and get_element_attribute on the editor as it is now
TextNow(xpath) == TextRead([backend |-> backend, tree |-> tree], xpath)

AttributeNow(xpath, attr_name) ==
    IF editor = "xsl"
    THEN xsl_get_element_attribute(LXML_AVAILABLE, backend, ns, tree, xpath, attr_name)
    ELSE filex_get_element_attribute(LXML_AVAILABLE, backend, tree, xpath, attr_name)

\* C28: after set_element_text(path, v) has returned True, get_element_text(path)
\* returns v, and after set_element_attribute(path, name, v) has returned True,
\* get_element_attribute(path, name) returns v, the empty string included.
C28_ReadYourWrite ==
    /\ (call.op = "set_element_text" /\ ret = Return(TRUE)) =>
            TextNow(call.xpath) = Return(call.text)
    /\ (call.op = "set_element_attribute" /\ ret = Return(TRUE)) =>
            AttributeNow(call.xpath, call.attr_name) = Return(call.attr_value)

Mutations == {"set_element_text", "set_value", "set_element_attribute"}

\* some element carries the value a mutation was called with
CarriesValue ==
    IF call.op = "set_element_attribute"
    THEN \E i \in 1..Len(tree) : \E key \in DOMAIN tree[i].attrs :
            tree[i].attrs[key] = call.attr_value
    ELSE \E i \in 1..Len(tree) : tree[i].text = call.text

C29_Step ==
    /\ (call'.op \in Mutations /\ ret' = Return(FALSE)) =>
            /\ tree' = tree
            /\ ns' = ns
            /\ original_content' = original_content
    /\ (call'.op \in Mutations /\ ret' = Return(TRUE)) => CarriesValue'

\* C29: a step of set_element_text, set_value or set_element_attribute that
\* returns False leaves the elements, the namespace registry and
\* original_content as they were, and one that returns True leaves some
\* element carrying the value it was called with.
C29_FailedMutationChangesNothing == [][C29_Step]_vars

\* the file of the last successful /api/load among the first n requests
RECURSIVE LastLoaded(_)
LastLoaded(n) ==
    IF n = 0 THEN NoPath
    ELSE IF requests[n].api = "load" /\ requests[n].success THEN requests[n].file_path
    ELSE LastLoaded(n - 1)

\* the editor registered for a path
EditorOf(path) ==
    editors[CHOOSE i \in 1..Len(editors) : editors[i].file_path = path]

\* C30: every /api/query, /api/update, /api/save and /api/extract_data_uri
\* that finds an editor works on the file of the most recent successful
\* /api/load, and a successful /api/load of a path leaves a new editor of the
\* file registered for that path.
C30_RequestsUseLatestLoad ==
    /\ \A k \in 1..Len(requests) :
            (requests[k].api # "load" /\ requests[k].file_path # NoPath) =>
                requests[k].file_path = LastLoaded(k - 1)
    /\ (requests # << >> /\ requests[Len(requests)].api = "load"
            /\ requests[Len(requests)].success) =>
            EditorOf(requests[Len(requests)].file_path)
                = FileEditor(editor, LXML_AVAILABLE, disk, requests[Len(requests)].file_path)

====
